---- MODULE Spec2Model ----
(***************************************************************************)
(* Feed ingestion and publishing pipeline of comshalom-mirror              *)
(* (src/src/index.ts): processItem, checkSpecificUrl, the admin            *)
(* reprocess/recreate routes, fetchFullHTML, commitToGitHub and the batch  *)
(* loop of processRSSFeed, over a key-value store (KV) and a               *)
(* GitHub-Contents-API content store.                                      *)
(*                                                                         *)
(* Every await of the code is a step boundary: an action is the code that  *)
(* runs between two awaits of one invocation, together with the answer of  *)
(* the collaborator it was waiting for.                                    *)
(*                                                                         *)
(* Scope: a KV get returns the record last put (KV's propagation delay is  *)
(* not modelled); the administrative deletion of a record                  *)
(* (/admin/test-url?force=true, /admin/process-specific-urls) is not       *)
(* modelled; KV puts, GitHub requests and page fetches fail transiently    *)
(* only in behaviours that start with envFaults = TRUE.                    *)
(***************************************************************************)
EXTENDS Integers, Sequences, FiniteSets, TLC

(***************************************************************************)
(* Bounds of the model.                                                    *)
(***************************************************************************)
NumLinks == 1      \* distinct links (ids) the feeds and the admin can name
NumBodies == 1     \* distinct substantive page texts a link can serve
MaxTasks == 2      \* invocations that can be in flight at once
MaxUuid == 2       \* uuids crypto.randomUUID can hand out
NumFeeds == 2      \* configured RSS feeds
MaxItems == 2      \* filtered items one feed contributes to a run
MaxBatch == 3      \* largest batchSize tried
MaxConc == 2       \* largest maxConcurrency tried
MaxSettingLen == 2 \* longest text of an environment setting
MaxStrLen == 3     \* longest string compared by calculateSimilarity
MaxCap == 2        \* largest maxDistance passed to optimizedLevenshtein
MaxFeedLen == 2    \* most items one feed returns (SpecUnique)
MaxRequests == 3   \* requests of the client followed within one window (SpecRate)
MaxTime == 3       \* latest instant a publication date or minDate names
MaxCallers == 3    \* items of one run that reach commitToGitHub

(***************************************************************************)
(* Program constants.                                                      *)
(***************************************************************************)
Retries == 2       \* fetchFullHTML(url, retries = 2), commitToGitHub(..., retries = 2)
NumSpecificUrls == 2   \* the hard-coded specificUrls of processRSSFeed

Links == 1..NumLinks
Tasks == 1..MaxTasks
Uuids == 1..MaxUuid
\* Page texts: TinyText is a page that isValidContent rejects and whose
\* tag-stripped text is shorter than 50 characters, 1..NumBodies are
\* substantive texts.
TinyText == 0
Texts == 0..NumBodies

VARIABLES
    page,             \* the origin site: link -> text the page serves now
    kv,               \* COMMUNIQUE_STORE: id -> Communique (see IdOf)
    gh,               \* content store: uuid -> content of pages/{uuid}.html
    task,             \* the invocations in flight, one per slot
    stats,            \* RunStats of the run under observation
    submitted,        \* links the observed run has handed to processItem
    branchCached,     \* cachedDefaultBranch is set and unexpired
    lastNotification, \* KV key 'last_notification': the id it names (NoId: absent)
    envFaults,        \* the collaborators may fail transiently in this behaviour
    sched,            \* one run of processRSSFeed (SpecSched)
    call              \* one call of a helper function: its arguments and its result

vars == <<page, kv, gh, task, stats, submitted, branchCached, lastNotification,
          envFaults, sched, call>>

(***************************************************************************)
(* Values.                                                                 *)
(***************************************************************************)
NoHtml == [text |-> -1, script |-> FALSE]
NoSha == <<>>

\* sanitizeHTML removes script blocks (and handlers, iframes, javascript:
\* URLs); the text of the page is kept.
sanitizeHTMLIdentity(raw) == raw
sanitizeHTML(raw) == [text |-> raw.text, script |-> FALSE]

\* The id of a link: the SHA-256 digest of the link in hex, cut to its first
\* IdChars characters (substring(0, 32)).  A digest is named by the text it is
\* the digest of; two ids are the same when they are the same number of
\* leading characters of the same digest.
IdChars == 32
NoId == [sha256 |-> 0, chars |-> 0]

\* processItem's derivation.
IdOf(link) == [sha256 |-> link, chars |-> IdChars]

\* checkSpecificUrl's derivation, written out a second time in the code.  The
\* variant that keeps half as many characters is not the code's.
CheckSpecificUrlIdShort(url) == [sha256 |-> url, chars |-> IdChars \div 2]
CheckSpecificUrlId(url) == [sha256 |-> url, chars |-> IdChars]

\* const id of an invocation; the admin routes take item.id from the record.
TaskId(tk) ==
    IF tk.kind = "checkSpecificUrl" THEN CheckSpecificUrlId(tk.link) ELSE IdOf(tk.link)

\* The page commitToGitHub writes: generateFullPageHTML(communique) embeds the
\* source url and the sanitized body (and the title, which no decision of the
\* pipeline reads back from the file).
generateFullPageHTML(link, html) == [url |-> link, html |-> html]

\* Git's blob sha identifies the content of a file; the commit sha identifies
\* the commit that wrote it.
BlobSha(content) == <<content>>
CommitSha(uuid, content) == <<uuid, content>>

IdleTask ==
    [pc |-> "idle", kind |-> "none", link |-> 0, inRun |-> FALSE, uuid |-> 0,
     html |-> NoHtml, isNew |-> FALSE, attempt |-> 0, existingSha |-> NoSha,
     sawSize |-> FALSE, result |-> "none"]

EmptyStats == [processed |-> 0, saved |-> 0, errors |-> 0]

Feeds == 1..NumFeeds

NoCall == [fn |-> "none"]

IdleSched ==
    [n |-> 0, batchSize |-> 1, maxConcurrency |-> 1, i |-> 0, j |-> 0,
     pc |-> "off", semaphore |-> <<>>, pending |-> {},
     minDateValid |-> TRUE, feedItems |-> [f \in Feeds |-> 0], u |-> 0,
     failedFeeds |-> {}, savedItems |-> {}, failedItems |-> {},
     pre |-> EmptyStats]

(***************************************************************************)
(* uuids.  crypto.randomUUID never returns a uuid that is in use; the      *)
(* model hands out the least uuid no record, file or invocation holds.     *)
(***************************************************************************)
UsedUuids ==
    {kv[l].uuid : l \in DOMAIN kv} \cup DOMAIN gh \cup {task[t].uuid : t \in Tasks}

FreeUuids == Uuids \ UsedUuids

\* A generator that returns the same uuid every time is not the code's.
randomUUIDRepeated == CHOOSE u \in Uuids : \A v \in Uuids : u <= v

randomUUID == CHOOSE u \in FreeUuids : \A v \in FreeUuids : u <= v

Active(t) == task[t].pc \notin {"idle", "done"}

\* Slots are interchangeable: a new invocation takes the lowest free one.
Free(t) == ~Active(t) /\ \A s \in Tasks : s < t => Active(s)

\* Invocations that may still draw a uuid.
MayMint(t) ==
    \/ task[t].kind = "processItem" /\ task[t].pc = "lookup"
    \/ task[t].kind = "checkSpecificUrl" /\ task[t].pc \in {"fetch", "lookup"}

CanStartMinting ==
    Cardinality(FreeUuids) > Cardinality({t \in Tasks : MayMint(t)})

(***************************************************************************)
(* Init: empty stores, no invocation in flight.                            *)
(***************************************************************************)
Init ==
    /\ page \in [Links -> Texts]
    /\ kv = [id \in {} |-> 0]
    /\ gh = [u \in {} |-> 0]
    /\ task = [t \in Tasks |-> IdleTask]
    /\ stats = EmptyStats
    /\ submitted = {}
    /\ branchCached = FALSE
    /\ lastNotification = NoId
    /\ envFaults \in BOOLEAN
    /\ sched = IdleSched
    /\ call = NoCall

(***************************************************************************)
(* Stores.                                                                 *)
(***************************************************************************)
\* KV put / content-store write: the key now maps to the value.
Store(f, k, v) == [x \in DOMAIN f \cup {k} |-> IF x = k THEN v ELSE f[x]]

\* The Communique the code serialises into KV.  githubSha, githubUrl and
\* publicUrl are absent (NoSha, 0) until a commit result is copied in.
\* A record that never takes the commit result in is not the code's.
CommuniqueWithoutCommit(link, uuid, html, sha, publicUrl) ==
    [url |-> link, uuid |-> uuid, html |-> html, githubSha |-> NoSha, publicUrl |-> 0]

Communique(link, uuid, html, sha, publicUrl) ==
    [url |-> link, uuid |-> uuid, html |-> html, githubSha |-> sha,
     publicUrl |-> publicUrl]

\* The public URL of pages/{uuid}.html names the file by its uuid.
PublicUrl(uuid) == uuid

(***************************************************************************)
(* The end of an invocation.  processItem and checkSpecificUrl never       *)
(* reject: they return {success, error}.  For an item of the observed run  *)
(* the .then callback of the batch loop counts the result.                 *)
(***************************************************************************)
DoneTask(tk, res) == [IdleTask EXCEPT !.pc = "done", !.result = res]

\* A callback that drops the update of a failed item.  It is not the code's.
CountResultSavedOnly(st, res) ==
    IF res = "success" THEN [st EXCEPT !.saved = @ + 1] ELSE st

CountResult(st, res) ==
    IF res = "success"
    THEN [st EXCEPT !.saved = @ + 1]
    ELSE [st EXCEPT !.errors = @ + 1]

Finish(t, res) ==
    /\ task' = [task EXCEPT ![t] = DoneTask(task[t], res)]
    /\ stats' = IF task[t].inRun THEN CountResult(stats, res) ELSE stats

\* commitToGitHub starts with getDefaultBranch: a cached, unexpired branch is
\* returned at once, otherwise the metadata request is sent.
CommitEntry == IF branchCached THEN "check" ELSE "meta"

(***************************************************************************)
(* The origin site edits a page.                                           *)
(***************************************************************************)
PageChanges(l, x) ==
    /\ x \in Texts
    /\ x # page[l]
    /\ page' = [page EXCEPT ![l] = x]
    /\ UNCHANGED <<kv, gh, task, stats, submitted, branchCached, lastNotification,
                   envFaults, sched, call>>

(***************************************************************************)
(* processRSSFeed, observed run: an item is handed to processItem.         *)
(***************************************************************************)
NewItemTask(l, inRun) ==
    [IdleTask EXCEPT !.pc = "lookup", !.kind = "processItem", !.link = l,
                     !.inRun = inRun]

\* for (const item of batch) { stats.processed++; ... processItem(item) }
\* uniqueItems holds one item per link, so a run submits a link once.
Submit(t, l) ==
    /\ Free(t)
    /\ l \notin submitted
    /\ CanStartMinting
    /\ task' = [task EXCEPT ![t] = NewItemTask(l, TRUE)]
    /\ stats' = [stats EXCEPT !.processed = @ + 1]
    /\ submitted' = submitted \cup {l}
    /\ UNCHANGED <<page, kv, gh, branchCached, lastNotification, envFaults, sched, call>>

\* The observed run returns its stats; the next run starts from zero.
NewRun ==
    /\ \A t \in Tasks : task[t].inRun => ~Active(t)
    /\ stats # EmptyStats
    /\ stats' = EmptyStats
    /\ submitted' = {}
    /\ UNCHANGED <<page, kv, gh, task, branchCached, lastNotification, envFaults, sched, call>>

\* processItem called by another, overlapping run of processRSSFeed.
StartProcessItem(t, l) ==
    /\ Free(t)
    /\ CanStartMinting
    /\ task' = [task EXCEPT ![t] = NewItemTask(l, FALSE)]
    /\ UNCHANGED <<page, kv, gh, stats, submitted, branchCached, lastNotification,
                   envFaults, sched, call>>

\* checkSpecificUrl called by /admin/test-url (or by another run).
StartCheckSpecificUrl(t, l) ==
    /\ Free(t)
    /\ CanStartMinting
    /\ task' = [task EXCEPT ![t] =
                  [IdleTask EXCEPT !.pc = "fetch", !.kind = "checkSpecificUrl",
                                   !.link = l]]
    /\ UNCHANGED <<page, kv, gh, stats, submitted, branchCached, lastNotification,
                   envFaults, sched, call>>

(***************************************************************************)
(* processItem: the duplicate check.                                       *)
(***************************************************************************)
\* A duplicate check that skips published records only.  It is not the code's
\* check: properties that rest on the code skipping every record fail under it.
IsDuplicatePublishedOnly(parsed, link) == parsed.url = link /\ parsed.githubSha # NoSha

\* if (parsed.url === item.link || parsed.title === item.title).  The record
\* under the id of a link always carries that link as its url, so the title
\* disjunct, which could only add skips, is never the one that decides.
IsDuplicate(parsed, link) == parsed.url = link

ProcessItemLookup(t) ==
    LET tk == task[t]
        id == IdOf(tk.link)
    IN  /\ tk.pc = "lookup"
        /\ tk.kind = "processItem"
        /\ IF id \in DOMAIN kv /\ IsDuplicate(kv[id], tk.link)
           THEN Finish(t, "Already exists")
           ELSE /\ task' = [task EXCEPT ![t].pc = "fetch", ![t].uuid = randomUUID]
                /\ stats' = stats
        /\ UNCHANGED <<page, kv, gh, submitted, branchCached, lastNotification,
                       envFaults, sched, call>>

(***************************************************************************)
(* fetchFullHTML: one attempt of the retry loop per step.                  *)
(***************************************************************************)
\* The answers an attempt can get: a network failure or non-2xx status, a
\* body over the 10 MB ceiling (validateSize fails), or the page, with or
\* without script blocks around its text.
FetchAnswers == (IF envFaults THEN {"http"} ELSE {}) \cup {"size", "plain", "script"}

\* checkSpecificUrl refuses a page that isValidContent rejects and whose
\* tag-stripped text is shorter than 50 characters.
ContentRefused(html) == html.text = TinyText

\* What follows a failed attempt: throw on the last one, otherwise wait
\* 1000 * 2^attempt ms and try again.
FetchFailed(t, oversize) ==
    IF task[t].attempt = Retries
    THEN Finish(t, "error")
    ELSE /\ task' = [task EXCEPT ![t].attempt = @ + 1,
                                 ![t].sawSize = @ \/ oversize]
         /\ stats' = stats

FetchReturned(t, html) ==
    IF task[t].kind = "processItem"
    THEN /\ task' = [task EXCEPT ![t].pc = "put1", ![t].html = html, ![t].attempt = 0]
         /\ stats' = stats
    ELSE IF ContentRefused(html)
         THEN Finish(t, "error")
         ELSE /\ task' = [task EXCEPT ![t].pc = "lookup", ![t].html = html,
                                      ![t].attempt = 0]
              /\ stats' = stats

FetchFullHTML(t, answer) ==
    /\ task[t].pc = "fetch"
    /\ answer \in FetchAnswers
    /\ IF answer \in {"http", "size"}
       THEN FetchFailed(t, answer = "size")
       ELSE FetchReturned(t, sanitizeHTML([text |-> page[task[t].link],
                                           script |-> (answer = "script")]))
    /\ UNCHANGED <<page, kv, gh, submitted, branchCached, lastNotification,
                   envFaults, sched, call>>

(***************************************************************************)
(* KV answers.  A put is applied, or (transiently) fails and throws.       *)
(***************************************************************************)
KvAnswers == IF envFaults THEN {"ok", "fail"} ELSE {"ok"}

\* processItem: await env.COMMUNIQUE_STORE.put(id, communique) before the
\* commit: the record has no githubSha and no publicUrl yet.
ProcessItemPut(t, answer) ==
    LET tk == task[t]
    IN  /\ tk.pc = "put1"
        /\ answer \in KvAnswers
        /\ IF answer = "ok"
           THEN /\ kv' = Store(kv, IdOf(tk.link),
                               Communique(tk.link, tk.uuid, tk.html, NoSha, 0))
                /\ task' = [task EXCEPT ![t].pc = CommitEntry]
                /\ stats' = stats
           ELSE /\ kv' = kv
                /\ Finish(t, "error")
        /\ UNCHANGED <<page, gh, submitted, branchCached, lastNotification,
                       envFaults, sched, call>>

(***************************************************************************)
(* checkSpecificUrl: the lookup that follows the fetch and the validation.  *)
(***************************************************************************)
\* A check that never finds the content unchanged is not the code's.
UnchangedNever(existingItem, html) == FALSE

\* if (existingItem.publicUrl && html === existingItem.html) return
Unchanged(existingItem, html) == existingItem.publicUrl # 0 /\ html = existingItem.html

\* const uuid = existingItem?.uuid || crypto.randomUUID()
SpecificUuid(id) == IF id \in DOMAIN kv THEN kv[id].uuid ELSE randomUUID

CheckSpecificUrlLookup(t) ==
    LET tk == task[t]
        id == CheckSpecificUrlId(tk.link)
    IN  /\ tk.pc = "lookup"
        /\ tk.kind = "checkSpecificUrl"
        /\ IF id \in DOMAIN kv /\ Unchanged(kv[id], tk.html)
           THEN Finish(t, "success")
           ELSE /\ task' = [task EXCEPT ![t].pc = CommitEntry,
                                        ![t].uuid = SpecificUuid(id),
                                        ![t].isNew = (id \notin DOMAIN kv)]
                /\ stats' = stats
        /\ UNCHANGED <<page, kv, gh, submitted, branchCached, lastNotification,
                       envFaults, sched, call>>

(***************************************************************************)
(* /admin/reprocess and /admin/recreate-all: the route reads every record  *)
(* and commits the selected ones from that snapshot, one task per record.  *)
(***************************************************************************)
\* item.html && (!item.publicUrl && !item.githubUrl || !item.uuid)
NeedsReprocess(item) == item.html # NoHtml /\ (item.publicUrl = 0 \/ item.uuid = 0)

\* item.html && item.html.length > 0
NeedsRecreate(item) == item.html # NoHtml

AdminTask(kind, item) ==
    [IdleTask EXCEPT !.pc = CommitEntry, !.kind = kind, !.link = item.url,
                     !.uuid = item.uuid, !.html = item.html]

StartReprocess(t, l) ==
    /\ Free(t)
    /\ IdOf(l) \in DOMAIN kv
    /\ NeedsReprocess(kv[IdOf(l)])
    /\ task' = [task EXCEPT ![t] = AdminTask("reprocess", kv[IdOf(l)])]
    /\ UNCHANGED <<page, kv, gh, stats, submitted, branchCached, lastNotification,
                   envFaults, sched, call>>

StartRecreate(t, l) ==
    /\ Free(t)
    /\ IdOf(l) \in DOMAIN kv
    /\ NeedsRecreate(kv[IdOf(l)])
    /\ task' = [task EXCEPT ![t] = AdminTask("recreate", kv[IdOf(l)])]
    /\ UNCHANGED <<page, kv, gh, stats, submitted, branchCached, lastNotification,
                   envFaults, sched, call>>

(***************************************************************************)
(* commitToGitHub.                                                         *)
(***************************************************************************)
\* getDefaultBranch, cache miss: the metadata request returns (or fails and
\* the fallback 'main' is used); either way the result is cached.
GetDefaultBranch(t) ==
    /\ task[t].pc = "meta"
    /\ branchCached' = TRUE
    /\ task' = [task EXCEPT ![t].pc = "check"]
    /\ UNCHANGED <<page, kv, gh, stats, submitted, lastNotification, envFaults, sched, call>>

\* The cached branch expires after BRANCH_CACHE_TTL.
BranchCacheExpires ==
    /\ branchCached
    /\ branchCached' = FALSE
    /\ UNCHANGED <<page, kv, gh, task, stats, submitted, lastNotification,
                   envFaults, sched, call>>

\* GET contents/pages/{uuid}.html.  "found" and "absent" are the store's
\* truthful answers; "error" is any other non-2xx status or a timeout.
CheckAnswers(uuid) ==
    (IF uuid \in DOMAIN gh THEN {"found"} ELSE {"absent"})
        \cup (IF envFaults THEN {"error"} ELSE {})

\* existingSha is set only from a 2xx answer; every other outcome leaves it
\* undefined ("Arquivo nao existe, continuar").
ExistingSha(uuid, answer) == IF answer = "found" THEN BlobSha(gh[uuid]) ELSE NoSha

CommitCheck(t, answer) ==
    /\ task[t].pc = "check"
    /\ answer \in CheckAnswers(task[t].uuid)
    /\ task' = [task EXCEPT ![t].pc = "put",
                            ![t].existingSha = ExistingSha(task[t].uuid, answer)]
    /\ UNCHANGED <<page, kv, gh, stats, submitted, branchCached, lastNotification,
                   envFaults, sched, call>>

\* The Contents API accepts a PUT without sha only for a path that does not
\* exist, and a PUT with sha only when it is the blob sha of the file.
PutAccepted(uuid, sha) ==
    IF uuid \in DOMAIN gh THEN sha = BlobSha(gh[uuid]) ELSE sha = NoSha

PutAnswers(uuid, sha) ==
    (IF PutAccepted(uuid, sha) THEN {"ok"} ELSE {"rejected"})
        \cup (IF envFaults THEN {"transient"} ELSE {})

\* catch (error) { if (attempt === retries) throw error; await backoff }
CommitFailed(t) ==
    IF task[t].attempt = Retries
    THEN Finish(t, "error")
    ELSE /\ task' = [task EXCEPT ![t].pc = "check", ![t].attempt = @ + 1,
                                 ![t].existingSha = NoSha]
         /\ stats' = stats

\* A commit that reports success without having written the file is not the
\* code's collaborator.
committedNothing(files, uuid, content) == files

\* A PUT the content store accepted: pages/{uuid}.html now holds the content.
committed(files, uuid, content) == Store(files, uuid, content)

CommitPut(t, answer) ==
    LET tk == task[t]
    IN  /\ tk.pc = "put"
        /\ answer \in PutAnswers(tk.uuid, tk.existingSha)
        /\ IF answer = "ok"
           THEN /\ gh' = committed(gh, tk.uuid, generateFullPageHTML(tk.link, tk.html))
                /\ task' = [task EXCEPT ![t].pc = "put2", ![t].attempt = 0,
                                        ![t].existingSha = NoSha]
                /\ stats' = stats
           ELSE /\ gh' = gh
                /\ CommitFailed(t)
        /\ UNCHANGED <<page, kv, submitted, branchCached, lastNotification,
                       envFaults, sched, call>>

(***************************************************************************)
(* The KV write that follows the commit, on every path.                    *)
(***************************************************************************)
\* An invocation that notifies after every publish, updates included, is not
\* the code's.
AfterStoredAlwaysNotifies(t) ==
    /\ task' = [task EXCEPT ![t].pc = "email"]
    /\ stats' = stats

\* What the invocation does once the record with its commit data is stored.
AfterStored(t) ==
    LET tk == task[t]
    IN  IF tk.kind = "processItem" \/ (tk.kind = "checkSpecificUrl" /\ tk.isNew)
        THEN /\ task' = [task EXCEPT ![t].pc = "email"]
             /\ stats' = stats
        ELSE Finish(t, "success")

PublishedPut(t, answer) ==
    LET tk == task[t]
        content == generateFullPageHTML(tk.link, tk.html)
    IN  /\ tk.pc = "put2"
        /\ answer \in KvAnswers
        /\ IF answer = "ok"
           THEN /\ kv' = Store(kv, TaskId(tk),
                               Communique(tk.link, tk.uuid, tk.html,
                                          CommitSha(tk.uuid, content), PublicUrl(tk.uuid)))
                /\ AfterStored(t)
           ELSE /\ kv' = kv
                /\ Finish(t, "error")
        /\ UNCHANGED <<page, gh, submitted, branchCached, lastNotification,
                       envFaults, sched, call>>

(***************************************************************************)
(* Notifications: both are non-critical.                                   *)
(***************************************************************************)
\* sendEmail returns, or throws once the provider call has failed on every
\* retry.
EmailAnswers == IF envFaults THEN {"sent", "throws"} ELSE {"sent"}

\* try { await sendEmail(...) } catch (error) { logger.error(...) }: whatever
\* sendEmail did, processItem goes on to the push notification and
\* checkSpecificUrl returns success.  The variant that lets the exception
\* escape to the outer catch is not the code's.
AfterEmailRethrown(t, answer) ==
    IF answer = "throws"
    THEN Finish(t, "error")
    ELSE IF task[t].kind = "processItem"
         THEN /\ task' = [task EXCEPT ![t].pc = "push"]
              /\ stats' = stats
         ELSE Finish(t, "success")

AfterEmail(t, answer) ==
    IF task[t].kind = "processItem"
    THEN /\ task' = [task EXCEPT ![t].pc = "push"]
         /\ stats' = stats
    ELSE Finish(t, "success")

SendEmail(t, answer) ==
    /\ task[t].pc = "email"
    /\ answer \in EmailAnswers
    /\ AfterEmail(t, answer)
    /\ UNCHANGED <<page, kv, gh, submitted, branchCached, lastNotification,
                   envFaults, sched, call>>

\* sendPushNotifications: put 'last_notification'; a failure is swallowed.
SendPushNotifications(t, answer) ==
    /\ task[t].pc = "push"
    /\ answer \in KvAnswers
    /\ lastNotification' = IF answer = "ok" THEN IdOf(task[t].link) ELSE lastNotification
    /\ Finish(t, "success")
    /\ UNCHANGED <<page, kv, gh, submitted, branchCached, envFaults, sched, call>>

Next ==
    \/ \E l \in Links, x \in Texts : PageChanges(l, x)
    \/ \E t \in Tasks, l \in Links : Submit(t, l)
    \/ NewRun
    \/ \E t \in Tasks, l \in Links : StartProcessItem(t, l)
    \/ \E t \in Tasks, l \in Links : StartCheckSpecificUrl(t, l)
    \/ \E t \in Tasks, l \in Links : StartReprocess(t, l)
    \/ \E t \in Tasks, l \in Links : StartRecreate(t, l)
    \/ \E t \in Tasks : ProcessItemLookup(t)
    \/ \E t \in Tasks, a \in {"http", "size", "plain", "script"} : FetchFullHTML(t, a)
    \/ \E t \in Tasks, a \in {"ok", "fail"} : ProcessItemPut(t, a)
    \/ \E t \in Tasks : CheckSpecificUrlLookup(t)
    \/ \E t \in Tasks : GetDefaultBranch(t)
    \/ BranchCacheExpires
    \/ \E t \in Tasks, a \in {"found", "absent", "error"} : CommitCheck(t, a)
    \/ \E t \in Tasks, a \in {"ok", "rejected", "transient"} : CommitPut(t, a)
    \/ \E t \in Tasks, a \in {"ok", "fail"} : PublishedPut(t, a)
    \/ \E t \in Tasks, a \in {"sent", "throws"} : SendEmail(t, a)
    \/ \E t \in Tasks, a \in {"ok", "fail"} : SendPushNotifications(t, a)

Spec == Init /\ [][Next]_vars

(***************************************************************************)
(* SpecSched: one run of processRSSFeed.                                   *)
(*                                                                         *)
(*   try {                                                                 *)
(*     for (const specificUrl of specificUrls) { checkSpecificUrl ... }    *)
(*     logger.info(..., { minDate: config.minDate.toISOString() });        *)
(*     const feedResults = await Promise.allSettled(rssFeeds.map(...));    *)
(*     ... collect, dedupe, filter: relevantItems ...                      *)
(*     for (let i = 0; i < relevantItems.length; i += batchSize) {         *)
(*       const batch = relevantItems.slice(i, i + batchSize);              *)
(*       const semaphore = [];                                             *)
(*       for (const item of batch) {                                       *)
(*         stats.processed++;                                              *)
(*         if (semaphore.length >= maxConcurrency) await Promise.race(..); *)
(*         semaphore.push(processItem(item).then(count));                  *)
(*       }                                                                 *)
(*       await Promise.all(semaphore);                                     *)
(*     }                                                                   *)
(*     return stats;                                                       *)
(*   } catch (error) { stats.errors++; throw error; }                      *)
(*                                                                         *)
(* Items are numbered 1..n.  processItem is seen here as the promise it    *)
(* returns: it settles while the loop is suspended in an await (the        *)
(* runtime is single-threaded).  sched.savedItems, failedItems,            *)
(* failedFeeds and pre (the stats when the batch phase starts) record what *)
(* has happened in the run.                                                *)
(***************************************************************************)
ingestVars ==
    <<page, kv, gh, task, submitted, branchCached, lastNotification, envFaults, call>>

\* The settings of a run: what each feed would contribute after dedupe and
\* filter, batchSize, maxConcurrency, and whether MIN_DATE parses to a date.
SchedConfigs ==
    {[IdleSched EXCEPT !.feedItems = fi, !.batchSize = b, !.maxConcurrency = k,
                       !.minDateValid = v, !.pc = "specific"] :
        fi \in [Feeds -> 0..MaxItems], b \in 1..MaxBatch, k \in 1..MaxConc,
        v \in BOOLEAN}

InitSched ==
    /\ page = [l \in Links |-> TinyText]
    /\ kv = [id \in {} |-> 0]
    /\ gh = [u \in {} |-> 0]
    /\ task = [t \in Tasks |-> IdleTask]
    /\ stats = EmptyStats
    /\ submitted = {}
    /\ branchCached = FALSE
    /\ lastNotification = NoId
    /\ envFaults = FALSE
    /\ sched \in SchedConfigs
    /\ call = NoCall

\* catch (error) { stats.errors++; ...; throw error; }: the promise of the run
\* rejects.
RunThrows(sc) == [sc EXCEPT !.pc = "rejected"]

\* One hard-coded URL is checked: checkSpecificUrl returns success or failure
\* and the loop counts it.  After the last one the run logs
\* config.minDate.toISOString(), which throws a RangeError for an invalid
\* date, and then awaits the feeds.
SchedSpecific(res) ==
    LET last == sched.u + 1 = NumSpecificUrls
        counted == CountResult(stats, res)
    IN  /\ sched.pc = "specific"
        /\ IF last /\ ~sched.minDateValid
           THEN /\ stats' = [counted EXCEPT !.errors = @ + 1]
                /\ sched' = RunThrows([sched EXCEPT !.u = @ + 1])
           ELSE /\ stats' = counted
                /\ sched' = [sched EXCEPT !.u = @ + 1,
                                          !.pc = IF last THEN "feeds" ELSE "specific"]
        /\ UNCHANGED ingestVars

RECURSIVE SumItems(_, _)
SumItems(fi, F) ==
    IF F = {} THEN 0
    ELSE LET f == CHOOSE x \in F : TRUE IN fi[f] + SumItems(fi, F \ {f})

\* for (const result of feedResults): the items of every fulfilled feed are
\* collected; a rejected feed contributes none.  The variant that drops every
\* feed when one has failed is not the code's.
CollectedItemsAllOrNothing(fi, failed) ==
    IF failed = {} THEN SumItems(fi, Feeds) ELSE 0

CollectedItems(fi, failed) == SumItems(fi, Feeds \ failed)

\* One error for the whole fetch phase, however many feeds failed, is not
\* the code's count.
FeedErrorsOnce(failed) == IF failed = {} THEN 0 ELSE 1

\* else { stats.errors++ } for each rejected result.
FeedErrors(failed) == Cardinality(failed)

\* Promise.allSettled has settled: the feeds in failed threw after their
\* retries.  Each counts one error; the rest is deduped and filtered
\* synchronously, and the batch phase starts.
SchedFeeds(failed) ==
    LET n == CollectedItems(sched.feedItems, failed)
        st == [stats EXCEPT !.errors = @ + FeedErrors(failed)]
    IN  /\ sched.pc = "feeds"
        /\ stats' = st
        /\ sched' = [sched EXCEPT !.failedFeeds = failed, !.n = n, !.pre = st,
                                  !.pc = IF n = 0 THEN "done" ELSE "loop"]
        /\ UNCHANGED ingestVars

\* The index after the last item of the current batch.
BatchEnd(sc) == IF sc.i + sc.batchSize < sc.n THEN sc.i + sc.batchSize ELSE sc.n

\* if (semaphore.length >= maxConcurrency)
MustWait(sc) == Len(sc.semaphore) >= sc.maxConcurrency

\* processItem(item) is called and its promise pushed; the inner loop goes
\* on to the next item, or leaves the batch for Promise.all.
StartItem(sc) ==
    [sc EXCEPT !.semaphore = Append(@, sc.j + 1),
               !.pending = @ \cup {sc.j + 1},
               !.j = @ + 1,
               !.pc = IF sc.j + 1 = BatchEnd(sc) THEN "all" ELSE "loop"]

\* Promise.race(semaphore) resolves once any promise of the array has settled.
\* A race that never resolves is not the code's.
RaceNeverResolves(sc) == FALSE

RaceResolved(sc) ==
    \E k \in 1..Len(sc.semaphore) : sc.semaphore[k] \notin sc.pending

\* Promise.all(semaphore) resolves once every promise of the array has settled.
\* Resolving as soon as one has settled is what Promise.race does, not this.
AllResolvedWhenOneHas(sc) ==
    \E k \in 1..Len(sc.semaphore) : sc.semaphore[k] \notin sc.pending

AllResolved(sc) ==
    \A k \in 1..Len(sc.semaphore) : sc.semaphore[k] \notin sc.pending

\* Top of the inner loop body for the next item.
SchedItem ==
    /\ sched.pc = "loop"
    /\ stats' = [stats EXCEPT !.processed = @ + 1]
    /\ sched' = IF MustWait(sched) THEN [sched EXCEPT !.pc = "race"] ELSE StartItem(sched)
    /\ UNCHANGED ingestVars

\* await Promise.race(semaphore) returns; the item is started.
SchedRace ==
    /\ sched.pc = "race"
    /\ RaceResolved(sched)
    /\ sched' = StartItem(sched)
    /\ UNCHANGED <<stats, ingestVars>>

\* await Promise.all(semaphore) returns; the outer loop takes the next batch
\* with a new semaphore array, or the run returns stats.
SchedBatchDone ==
    /\ sched.pc = "all"
    /\ AllResolved(sched)
    /\ sched' = [sched EXCEPT !.i = @ + sched.batchSize,
                              !.semaphore = <<>>,
                              !.pc = IF sched.i + sched.batchSize < sched.n
                                     THEN "loop" ELSE "done"]
    /\ UNCHANGED <<stats, ingestVars>>

\* How the promise of a processItem call settles.  processItem wraps its whole
\* body in try/catch and returns {success: false, error} from the catch: it
\* fulfils, with success or with failure, and never rejects.  The variant in
\* which it can reject is not the code's.
ItemOutcomesWithRejection == {"success", "error", "rejected"}

ItemOutcomes == {"success", "error"}

\* A processItem promise settles.  Fulfilled, its .then callback counts the
\* result.  Rejected, the promise of .then rejects too, the pending
\* Promise.race / Promise.all rejects and the catch of the run takes over.
PromiseSettles(p, res) ==
    /\ sched.pc \in {"race", "all"}
    /\ p \in sched.pending
    /\ res \in ItemOutcomes
    /\ IF res = "rejected"
       THEN /\ sched' = RunThrows([sched EXCEPT !.pending = @ \ {p}])
            /\ stats' = [stats EXCEPT !.errors = @ + 1]
       ELSE /\ sched' = [sched EXCEPT
                           !.pending = @ \ {p},
                           !.savedItems = IF res = "success" THEN @ \cup {p} ELSE @,
                           !.failedItems = IF res = "error" THEN @ \cup {p} ELSE @]
            /\ stats' = CountResult(stats, res)
    /\ UNCHANGED ingestVars

NextSched ==
    \/ \E res \in {"success", "error"} : SchedSpecific(res)
    \/ \E failed \in SUBSET Feeds : SchedFeeds(failed)
    \/ SchedItem
    \/ SchedRace
    \/ SchedBatchDone
    \/ \E p \in 1..(NumFeeds * MaxItems), res \in {"success", "error", "rejected"} :
          PromiseSettles(p, res)

SpecSched == InitSched /\ [][NextSched]_vars

\* Every outbound call eventually returns or times out, so every awaited
\* promise settles and every step of the run that can be taken is taken.
FairSched == SpecSched /\ WF_vars(NextSched)

\* Number of processItem operations started and not yet completed.
InFlight == Cardinality(sched.pending)

(***************************************************************************)
(* SpecConfig: loadConfig on the BATCH_SIZE and MAX_CONCURRENCY settings.  *)
(*                                                                         *)
(*   const batchSize = parseInt(env.BATCH_SIZE || '5', 10);                *)
(*   const maxConcurrency = parseInt(env.MAX_CONCURRENCY || '3', 10);      *)
(*   return { ..., batchSize: Math.max(1, Math.min(batchSize, 10)),        *)
(*            maxConcurrency: Math.max(1, Math.min(maxConcurrency, 10)) }  *)
(*                                                                         *)
(* A setting is absent or a text, a sequence of characters.  A JavaScript  *)
(* number is an integer or NaN.                                            *)
(***************************************************************************)
Digits == {"0", "1", "3", "5", "9"}
SettingChars == Digits \cup {"-", "x"}

RECURSIVE TextsUpTo(_)
TextsUpTo(n) ==
    IF n = 0 THEN {<<>>}
    ELSE LET shorter == TextsUpTo(n - 1)
         IN  shorter \cup {Append(w, c) : w \in shorter, c \in SettingChars}

Absent == [set |-> FALSE, text |-> <<>>]
Settings == {Absent} \cup {[set |-> TRUE, text |-> w] : w \in TextsUpTo(MaxSettingLen)}

NaN == [nan |-> TRUE, val |-> 0]
Num(v) == [nan |-> FALSE, val |-> v]

DigitValue(c) ==
    CASE c = "0" -> 0 [] c = "1" -> 1 [] c = "3" -> 3 [] c = "5" -> 5 [] c = "9" -> 9

\* The value of the longest prefix of digits of w, read after acc; NaN when
\* no digit has been read.
RECURSIVE ParseDigits(_, _, _)
ParseDigits(w, acc, any) ==
    IF w # <<>> /\ Head(w) \in Digits
    THEN ParseDigits(Tail(w), 10 * acc + DigitValue(Head(w)), TRUE)
    ELSE IF any THEN Num(acc) ELSE NaN

\* parseInt(w, 10): an optional sign, then the longest prefix of digits.
parseInt(w) ==
    IF w # <<>> /\ Head(w) = "-"
    THEN LET r == ParseDigits(Tail(w), 0, FALSE)
         IN  IF r.nan THEN NaN ELSE Num(0 - r.val)
    ELSE ParseDigits(w, 0, FALSE)

\* Math.min and Math.max return NaN when an argument is NaN.
MathMin(a, b) == IF a.nan \/ b.nan THEN NaN ELSE IF a.val <= b.val THEN a ELSE b
MathMax(a, b) == IF a.nan \/ b.nan THEN NaN ELSE IF a.val >= b.val THEN a ELSE b

\* env.X || dflt: an absent or empty setting gives the default text.
OrDefault(setting, dflt) ==
    IF setting.set /\ setting.text # <<>> THEN setting.text ELSE dflt

\* Math.max(1, Math.min(x, 10))
Clamp(x) == MathMax(Num(1), MathMin(x, Num(10)))

loadConfig(env) ==
    [batchSize |-> Clamp(parseInt(OrDefault(env.BATCH_SIZE, <<"5">>))),
     maxConcurrency |-> Clamp(parseInt(OrDefault(env.MAX_CONCURRENCY, <<"3">>)))]

InitConfig ==
    /\ page = [l \in Links |-> TinyText]
    /\ kv = [id \in {} |-> 0]
    /\ gh = [u \in {} |-> 0]
    /\ task = [t \in Tasks |-> IdleTask]
    /\ stats = EmptyStats
    /\ submitted = {}
    /\ branchCached = FALSE
    /\ lastNotification = NoId
    /\ envFaults = FALSE
    /\ sched = IdleSched
    /\ call \in {[fn |-> "loadConfig", pc |-> "called",
                  env |-> [BATCH_SIZE |-> b, MAX_CONCURRENCY |-> m],
                  config |-> [batchSize |-> NaN, maxConcurrency |-> NaN]] :
                    b \in Settings, m \in Settings}

LoadConfig ==
    /\ call.fn = "loadConfig"
    /\ call.pc = "called"
    /\ call' = [call EXCEPT !.pc = "returned", !.config = loadConfig(call.env)]
    /\ UNCHANGED <<page, kv, gh, task, stats, submitted, branchCached,
                   lastNotification, envFaults, sched>>

NextConfig == LoadConfig

SpecConfig == InitConfig /\ [][NextConfig]_vars

(***************************************************************************)
(* SpecSimilarity: levenshteinDistance and calculateSimilarity on two      *)
(* strings.  A string is a sequence of characters; "A" is the upper-case   *)
(* form of "a".                                                            *)
(***************************************************************************)
Alphabet == {"a", "b", "A"}

RECURSIVE StringsUpTo(_)
StringsUpTo(n) ==
    IF n = 0 THEN {<<>>}
    ELSE LET shorter == StringsUpTo(n - 1)
         IN  shorter \cup {Append(w, c) : w \in shorter, c \in Alphabet}

Strings == StringsUpTo(MaxStrLen)

toLowerCase(str) == [k \in 1..Len(str) |-> IF str[k] = "A" THEN "a" ELSE str[k]]

\* maxDistance?: number, left out by the caller.  `maxDistance && ...` is
\* false for undefined as it is for 0.
NoMaxDistance == 0

Abs(x) == IF x < 0 THEN 0 - x ELSE x
Min3(x, y, z) ==
    IF x <= y /\ x <= z THEN x ELSE IF y <= z THEN y ELSE z

\* for (let j = 1; j <= n; j++): fills curr[j] from prev and curr[j - 1];
\* leaves early once a cell exceeds maxDistance.
RECURSIVE FillRow(_, _, _, _, _, _, _)
FillRow(curr, prev, i, j, str1, str2, maxDistance) ==
    IF j > Len(str2)
    THEN [exit |-> FALSE, row |-> curr]
    ELSE LET cell == IF str1[i] = str2[j]
                     THEN prev[j - 1]
                     ELSE Min3(prev[j] + 1, curr[j - 1] + 1, prev[j - 1] + 1)
             filled == [curr EXCEPT ![j] = cell]
         IN  IF maxDistance # NoMaxDistance /\ cell > maxDistance
             THEN [exit |-> TRUE, row |-> filled]
             ELSE FillRow(filled, prev, i, j + 1, str1, str2, maxDistance)

\* for (let i = 1; i <= m; i++) { curr[0] = i; ...; [prev, curr] = [curr, prev] }
RECURSIVE Rows(_, _, _, _, _, _)
Rows(prev, curr, i, str1, str2, maxDistance) ==
    IF i > Len(str1)
    THEN [exit |-> FALSE, prev |-> prev, curr |-> curr]
    ELSE LET r == FillRow([curr EXCEPT ![0] = i], prev, i, 1, str1, str2, maxDistance)
         IN  IF r.exit
             THEN [exit |-> TRUE, prev |-> prev, curr |-> r.row]
             ELSE Rows(r.row, prev, i + 1, str1, str2, maxDistance)

\* A variant that returns the other row, curr[n], is not the code's.
optimizedLevenshteinOtherRow(str1, str2, maxDistance) ==
    LET m == Len(str1)
        n == Len(str2)
    IN  IF maxDistance # NoMaxDistance /\ Abs(m - n) > maxDistance
        THEN maxDistance + 1
        ELSE LET r == Rows([j \in 0..n |-> j], [j \in 0..n |-> 0], 1,
                           str1, str2, maxDistance)
             IN  IF r.exit THEN maxDistance + 1 ELSE r.curr[n]

optimizedLevenshtein(str1, str2, maxDistance) ==
    LET m == Len(str1)
        n == Len(str2)
    IN  IF maxDistance # NoMaxDistance /\ Abs(m - n) > maxDistance
        THEN maxDistance + 1
        ELSE LET r == Rows([j \in 0..n |-> j], [j \in 0..n |-> 0], 1,
                           str1, str2, maxDistance)
             IN  IF r.exit THEN maxDistance + 1 ELSE r.prev[n]

levenshteinDistance(str1, str2) == optimizedLevenshtein(str1, str2, NoMaxDistance)

\* A similarity is the fraction num / den; 1.0 is 1 / 1.
Fraction(num, den) == [num |-> num, den |-> den]
IsOne(x) == x.num = x.den

calculateSimilarity(str1, str2) ==
    LET maxLen == IF Len(str1) >= Len(str2) THEN Len(str1) ELSE Len(str2)
    IN  IF maxLen = 0
        THEN Fraction(1, 1)
        ELSE LET distance == levenshteinDistance(toLowerCase(str1), toLowerCase(str2))
             IN  Fraction(maxLen - distance, maxLen)

InitSimilarity ==
    /\ page = [l \in Links |-> TinyText]
    /\ kv = [id \in {} |-> 0]
    /\ gh = [u \in {} |-> 0]
    /\ task = [t \in Tasks |-> IdleTask]
    /\ stats = EmptyStats
    /\ submitted = {}
    /\ branchCached = FALSE
    /\ lastNotification = NoId
    /\ envFaults = FALSE
    /\ sched = IdleSched
    /\ call \in {[fn |-> f, pc |-> "called", str1 |-> a, str2 |-> b,
                  distance |-> 0, similarity |-> Fraction(0, 1)] :
                    f \in {"levenshteinDistance", "calculateSimilarity"},
                    a \in Strings, b \in Strings}

LevenshteinDistance ==
    /\ call.fn = "levenshteinDistance"
    /\ call.pc = "called"
    /\ call' = [call EXCEPT !.pc = "returned",
                            !.distance = levenshteinDistance(call.str1, call.str2)]
    /\ UNCHANGED <<page, kv, gh, task, stats, submitted, branchCached,
                   lastNotification, envFaults, sched>>

CalculateSimilarity ==
    /\ call.fn = "calculateSimilarity"
    /\ call.pc = "called"
    /\ call' = [call EXCEPT !.pc = "returned",
                            !.similarity = calculateSimilarity(call.str1, call.str2)]
    /\ UNCHANGED <<page, kv, gh, task, stats, submitted, branchCached,
                   lastNotification, envFaults, sched>>

NextSimilarity ==
    \/ LevenshteinDistance
    \/ CalculateSimilarity

SpecSimilarity == InitSimilarity /\ [][NextSimilarity]_vars

(***************************************************************************)
(* SpecValid: isValidContent on a page.  A page is described by what the   *)
(* function reads of it: whether it is blank, the length of its extracted  *)
(* text, whether its HTML contains a content keyword, whether its title or *)
(* h1 is an error heading, whether it has content elements.                *)
(***************************************************************************)
\* No ingestion is in progress: the state the helper functions are called in.
NoIngestion ==
    /\ page = [l \in Links |-> TinyText]
    /\ kv = [id \in {} |-> 0]
    /\ gh = [u \in {} |-> 0]
    /\ task = [t \in Tasks |-> IdleTask]
    /\ stats = EmptyStats
    /\ submitted = {}
    /\ branchCached = FALSE
    /\ lastNotification = NoId
    /\ envFaults = FALSE
    /\ sched = IdleSched

\* Text lengths on both sides of every threshold the function compares with.
TextLengths == {0, 3, 49, 50, 99, 100, 149, 150, 199, 200, 499, 500}

\* A blank page has no text and nothing else; an error heading is text of
\* at least three characters ("404").  A keyword may stand in an attribute,
\* so it does not bound the text from below.
Pages ==
    {h \in [blank : BOOLEAN, textLength : TextLengths, keyword : BOOLEAN,
            strongError : BOOLEAN, elements : BOOLEAN] :
        /\ h.blank => (h.textLength = 0 /\ ~h.keyword /\ ~h.strongError /\ ~h.elements)
        /\ h.strongError => h.textLength >= 3}

isValidContent(html) ==
    IF html.blank THEN FALSE
    ELSE IF html.textLength < 50 THEN FALSE
    ELSE IF html.strongError /\ html.textLength < 200 THEN FALSE
    ELSE IF html.keyword THEN TRUE
    ELSE IF html.textLength >= 200 /\ html.elements THEN TRUE
    ELSE IF html.textLength >= 500 THEN TRUE
    ELSE IF html.textLength >= 150 /\ ~html.strongError THEN TRUE
    ELSE IF html.elements /\ html.textLength >= 100 THEN TRUE
    ELSE FALSE

InitValid ==
    /\ NoIngestion
    /\ call \in {[fn |-> "isValidContent", pc |-> "called", html |-> h,
                  valid |-> FALSE] : h \in Pages}

IsValidContent ==
    /\ call.fn = "isValidContent"
    /\ call.pc = "called"
    /\ call' = [call EXCEPT !.pc = "returned", !.valid = isValidContent(call.html)]
    /\ UNCHANGED <<page, kv, gh, task, stats, submitted, branchCached,
                   lastNotification, envFaults, sched>>

NextValid == IsValidContent

SpecValid == InitValid /\ [][NextValid]_vars

(***************************************************************************)
(* SpecFilter: the relevance filter of processRSSFeed on one item, then    *)
(* the timestamp processItem gives the item.  A Date is an instant or NaN  *)
(* (Invalid Date).                                                         *)
(***************************************************************************)
\* item.pubDate: '' when the feed gives none (set = FALSE), otherwise a text
\* that new Date() parses to an instant or to Invalid Date.
PubDates ==
    {[set |-> FALSE, date |-> NaN], [set |-> TRUE, date |-> NaN]}
        \cup {[set |-> TRUE, date |-> Num(d)] : d \in 1..MaxTime}

\* uniqueItems.filter(item => ...): the url test, the date test, the pattern.
\* A comparison with Invalid Date is false.
isRelevant(item, config) ==
    IF ~item.validUrl THEN FALSE
    ELSE IF item.pubDate.set
            /\ (item.pubDate.date.nan
                \/ (~config.minDate.nan /\ item.pubDate.date.val < config.minDate.val))
         THEN FALSE
         ELSE config.processAll \/ item.matches

\* timestamp: item.pubDate ? new Date(item.pubDate).toISOString()
\*                         : new Date().toISOString()
\* toISOString throws a RangeError on an Invalid Date.
timestampOf(item) ==
    IF ~item.pubDate.set THEN [kind |-> "now", at |-> 0]
    ELSE IF item.pubDate.date.nan THEN [kind |-> "throws", at |-> 0]
         ELSE [kind |-> "pubDate", at |-> item.pubDate.date.val]

InitFilter ==
    /\ NoIngestion
    /\ call \in {[fn |-> "filter", pc |-> "called",
                  item |-> [validUrl |-> v, pubDate |-> d, matches |-> m],
                  config |-> [minDate |-> md, processAll |-> a],
                  relevant |-> FALSE, timestamp |-> [kind |-> "none", at |-> 0]] :
                    v \in BOOLEAN, d \in PubDates, m \in BOOLEAN,
                    md \in {NaN} \cup {Num(x) : x \in 1..MaxTime}, a \in BOOLEAN}

FilterItem ==
    /\ call.fn = "filter"
    /\ call.pc = "called"
    /\ call' = [call EXCEPT !.pc = "filtered",
                            !.relevant = isRelevant(call.item, call.config)]
    /\ UNCHANGED <<page, kv, gh, task, stats, submitted, branchCached,
                   lastNotification, envFaults, sched>>

\* processItem is called for the relevant items only.
StampItem ==
    /\ call.fn = "filter"
    /\ call.pc = "filtered"
    /\ call.relevant
    /\ call' = [call EXCEPT !.pc = "stamped", !.timestamp = timestampOf(call.item)]
    /\ UNCHANGED <<page, kv, gh, task, stats, submitted, branchCached,
                   lastNotification, envFaults, sched>>

NextFilter ==
    \/ FilterItem
    \/ StampItem

SpecFilter == InitFilter /\ [][NextFilter]_vars

(***************************************************************************)
(* SpecRetry: the retry loop of parseRSSFeed, fetchFullHTML, commitToGitHub *)
(* and the two email senders.  The four are written alike:                 *)
(*                                                                         *)
(*   for (let attempt = 0; attempt <= retries; attempt++) {                *)
(*     try { ...; return ... }                                             *)
(*     catch (error) {                                                     *)
(*       if (attempt === retries) throw error;                             *)
(*       await new Promise(r => setTimeout(r, 1000 * Math.pow(2, attempt)))*)
(*     } }                                                                 *)
(*                                                                         *)
(* call.failures is what each failed attempt failed with, call.delays the  *)
(* waits made so far, in ms.                                               *)
(***************************************************************************)
\* What an attempt can fail with: no answer in time, a non-2xx status, and
\* for the two fetches a body the function refuses (empty feed, oversize page).
FailureKinds(fn) ==
    CASE fn = "parseRSSFeed" -> {"network", "status", "empty"}
      [] fn = "fetchFullHTML" -> {"network", "status", "size"}
      [] fn = "commitToGitHub" -> {"network", "status"}
      [] fn = "sendEmail" -> {"network", "status"}

\* A wait that does not grow is not the code's.
BackoffDelayFixed(attempt) == 1000

BackoffDelay(attempt) == 1000 * 2^attempt

InitRetry ==
    /\ NoIngestion
    /\ call \in {[fn |-> f, pc |-> "attempt", attempt |-> 0, failures |-> <<>>,
                  delays |-> <<>>, error |-> "none"] :
                    f \in {"parseRSSFeed", "fetchFullHTML", "commitToGitHub", "sendEmail"}}

\* One pass of the loop body: the request succeeds and the function returns,
\* or it fails; the catch rethrows on the last attempt and otherwise waits.
Attempt(answer) ==
    /\ call.fn \in {"parseRSSFeed", "fetchFullHTML", "commitToGitHub", "sendEmail"}
    /\ call.pc = "attempt"
    /\ answer \in {"ok"} \cup FailureKinds(call.fn)
    /\ call' = IF answer = "ok"
               THEN [call EXCEPT !.pc = "returned"]
               ELSE [call EXCEPT !.failures = Append(@, answer),
                                 !.pc = IF call.attempt = Retries THEN "thrown"
                                        ELSE "backoff",
                                 !.error = IF call.attempt = Retries THEN answer
                                           ELSE @]
    /\ UNCHANGED <<page, kv, gh, task, stats, submitted, branchCached,
                   lastNotification, envFaults, sched>>

\* The timer fires; attempt++.
Backoff ==
    /\ call.fn \in {"parseRSSFeed", "fetchFullHTML", "commitToGitHub", "sendEmail"}
    /\ call.pc = "backoff"
    /\ call' = [call EXCEPT !.delays = Append(@, BackoffDelay(call.attempt)),
                            !.attempt = @ + 1,
                            !.pc = "attempt"]
    /\ UNCHANGED <<page, kv, gh, task, stats, submitted, branchCached,
                   lastNotification, envFaults, sched>>

NextRetry ==
    \/ \E answer \in {"ok", "network", "status", "empty", "size"} : Attempt(answer)
    \/ Backoff

SpecRetry == InitRetry /\ [][NextRetry]_vars

(***************************************************************************)
(* SpecBranch: getDefaultBranch called by the items of one run.            *)
(* call.cache is cachedDefaultBranch ("none": null or expired; a run is    *)
(* shorter than BRANCH_CACHE_TTL), call.requests the metadata requests     *)
(* issued so far.                                                          *)
(***************************************************************************)
Callers == 1..MaxCallers

InitBranch ==
    /\ NoIngestion
    /\ call \in {[fn |-> "getDefaultBranch", cache |-> c, requests |-> 0,
                  caller |-> [k \in Callers |-> [pc |-> "idle", branch |-> "none"]]] :
                    c \in {"none", "main", "develop"}}

\* if (cachedDefaultBranch && cachedDefaultBranch.expires > Date.now())
\*   return cachedDefaultBranch.branch;
\* otherwise the request is issued and the caller awaits the answer.
BranchCalled(k) ==
    /\ call.fn = "getDefaultBranch"
    /\ call.caller[k].pc = "idle"
    /\ call' = IF call.cache # "none"
               THEN [call EXCEPT !.caller[k] = [pc |-> "returned", branch |-> call.cache]]
               ELSE [call EXCEPT !.caller[k].pc = "fetching", !.requests = @ + 1]
    /\ UNCHANGED <<page, kv, gh, task, stats, submitted, branchCached,
                   lastNotification, envFaults, sched>>

\* The answer: data.default_branch || 'main' on a 2xx, the fallback 'main' on
\* any other status and on an exception; the cache is written either way.
BranchAnswered(k, answer) ==
    /\ call.fn = "getDefaultBranch"
    /\ call.caller[k].pc = "fetching"
    /\ LET branch == IF answer = "ok" THEN "develop" ELSE "main"
       IN  call' = [call EXCEPT !.cache = branch,
                                !.caller[k] = [pc |-> "returned", branch |-> branch]]
    /\ UNCHANGED <<page, kv, gh, task, stats, submitted, branchCached,
                   lastNotification, envFaults, sched>>

NextBranch ==
    \/ \E k \in Callers : BranchCalled(k)
    \/ \E k \in Callers, answer \in {"ok", "fail"} : BranchAnswered(k, answer)

SpecBranch == InitBranch /\ [][NextBranch]_vars

(***************************************************************************)
(* SpecPush: the push marker.  Two published items each run                *)
(* sendPushNotifications; clients poll /api/push/check.  call.now is       *)
(* Date.now(), call.marker the value of KV key 'last_notification',        *)
(* call.completed the marker writes that have completed, in order.         *)
(***************************************************************************)
NoMarker == [id |-> 0, timestamp |-> 0]

\* A put that keeps the event with the later timestamp is not the code's.
putMarkerIfNewer(marker, event) ==
    IF event.timestamp > marker.timestamp THEN event ELSE marker

\* COMMUNIQUE_STORE.put('last_notification', event): the value is replaced.
putMarker(marker, event) == event

\* const lastCheckTime = lastCheck ? parseInt(lastCheck, 10) : 0
lastCheckTimeOf(header) ==
    IF header.set /\ header.text # <<>> THEN parseInt(header.text) ELSE Num(0)

\* if (!notificationData) hasNew: false;
\* else hasNew: notification.timestamp > lastCheckTime (false against NaN)
pushCheck(marker, header) ==
    LET lastCheckTime == lastCheckTimeOf(header)
    IN  IF marker = NoMarker THEN [hasNew |-> FALSE, notification |-> NoMarker]
        ELSE IF ~lastCheckTime.nan /\ marker.timestamp > lastCheckTime.val
             THEN [hasNew |-> TRUE, notification |-> marker]
             ELSE [hasNew |-> FALSE, notification |-> NoMarker]

InitPush ==
    /\ NoIngestion
    /\ call = [fn |-> "push", now |-> 1, marker |-> NoMarker, completed |-> <<>>,
               item |-> [i \in 1..2 |-> [pc |-> "published", event |-> NoMarker]],
               polls |-> 0, header |-> Absent,
               response |-> [hasNew |-> FALSE, notification |-> NoMarker]]

Tick ==
    /\ call.fn = "push"
    /\ call.now < MaxTime
    /\ call' = [call EXCEPT !.now = @ + 1]
    /\ UNCHANGED <<page, kv, gh, task, stats, submitted, branchCached,
                   lastNotification, envFaults, sched>>

\* sendPushNotifications builds the event with timestamp: Date.now() and
\* awaits the put.
PushPrepared(i) ==
    /\ call.fn = "push"
    /\ call.item[i].pc = "published"
    /\ call' = [call EXCEPT !.item[i] = [pc |-> "putting",
                                         event |-> [id |-> i, timestamp |-> call.now]]]
    /\ UNCHANGED <<page, kv, gh, task, stats, submitted, branchCached,
                   lastNotification, envFaults, sched>>

\* The put completes, or fails and the error is swallowed.
PushPut(i, answer) ==
    /\ call.fn = "push"
    /\ call.item[i].pc = "putting"
    /\ call' = IF answer = "ok"
               THEN [call EXCEPT !.marker = putMarker(@, call.item[i].event),
                                 !.completed = Append(@, call.item[i].event),
                                 !.item[i].pc = "done"]
               ELSE [call EXCEPT !.item[i].pc = "done"]
    /\ UNCHANGED <<page, kv, gh, task, stats, submitted, branchCached,
                   lastNotification, envFaults, sched>>

\* GET /api/push/check with the X-Last-Check header of the client.
PushCheck(header) ==
    /\ call.fn = "push"
    /\ call.polls < 1
    /\ call' = [call EXCEPT !.polls = @ + 1, !.header = header,
                            !.response = pushCheck(call.marker, header)]
    /\ UNCHANGED <<page, kv, gh, task, stats, submitted, branchCached,
                   lastNotification, envFaults, sched>>

NextPush ==
    \/ Tick
    \/ \E i \in 1..2 : PushPrepared(i)
    \/ \E i \in 1..2, answer \in {"ok", "fail"} : PushPut(i, answer)
    \/ \E header \in Settings : PushCheck(header)

SpecPush == InitPush /\ [][NextPush]_vars

(***************************************************************************)
(* SpecPair: the two processItem calls of one batch, on two items with     *)
(* different links, running concurrently from the lookup to the return.    *)
(***************************************************************************)
InitPair ==
    /\ page = [l \in Links \cup {1, 2} |-> TinyText]
    /\ kv = [id \in {} |-> 0]
    /\ gh = [u \in {} |-> 0]
    /\ task = [t \in Tasks |-> IF t <= 2 THEN NewItemTask(t, TRUE) ELSE IdleTask]
    /\ stats = [EmptyStats EXCEPT !.processed = 2]
    /\ submitted = {1, 2}
    /\ branchCached \in BOOLEAN
    /\ lastNotification = NoId
    /\ envFaults \in BOOLEAN
    /\ sched = IdleSched
    /\ call = NoCall

NextPair ==
    \/ \E t \in Tasks : ProcessItemLookup(t)
    \/ \E t \in Tasks, a \in {"http", "size", "plain", "script"} : FetchFullHTML(t, a)
    \/ \E t \in Tasks, a \in {"ok", "fail"} : ProcessItemPut(t, a)
    \/ \E t \in Tasks : GetDefaultBranch(t)
    \/ \E t \in Tasks, a \in {"found", "absent", "error"} : CommitCheck(t, a)
    \/ \E t \in Tasks, a \in {"ok", "rejected", "transient"} : CommitPut(t, a)
    \/ \E t \in Tasks, a \in {"ok", "fail"} : PublishedPut(t, a)
    \/ \E t \in Tasks, a \in {"sent", "throws"} : SendEmail(t, a)
    \/ \E t \in Tasks, a \in {"ok", "fail"} : SendPushNotifications(t, a)

SpecPair == InitPair /\ [][NextPair]_vars

(***************************************************************************)
(* SpecCapped: optimizedLevenshtein called with a distance cap             *)
(* (maxDistance >= 1) on two strings.                                      *)
(***************************************************************************)
Caps == 1..MaxCap

InitCapped ==
    /\ NoIngestion
    /\ call \in {[fn |-> "optimizedLevenshtein", pc |-> "called",
                  str1 |-> a, str2 |-> b, maxDistance |-> c, distance |-> 0] :
                    a \in Strings, b \in Strings, c \in Caps}

OptimizedLevenshtein ==
    /\ call.fn = "optimizedLevenshtein"
    /\ call.pc = "called"
    /\ call' = [call EXCEPT !.pc = "returned",
                            !.distance = optimizedLevenshtein(call.str1, call.str2,
                                                              call.maxDistance)]
    /\ UNCHANGED <<page, kv, gh, task, stats, submitted, branchCached,
                   lastNotification, envFaults, sched>>

NextCapped == OptimizedLevenshtein

SpecCapped == InitCapped /\ [][NextCapped]_vars

(***************************************************************************)
(* SpecAuth: the requests one call of commitToGitHub or checkPageExists    *)
(* sends to the content store, each with its Authorization scheme.         *)
(***************************************************************************)
\* A credential is its prefix and the rest of the token; prefixes other than
\* the two the code tests for stand for every other token.
TokenPrefixes == {"ghp_", "github_pat_", "gho_"}
Tokens == [prefix : TokenPrefixes, rest : {"x", "y"}]

\* env.GITHUB_TOKEN.startsWith(prefix), for the prefixes the code tests.
startsWith(token, prefix) == token.prefix = prefix

\* getDefaultBranch: the metadata request.
BranchAuthorization(token) ==
    IF startsWith(token, "github_pat_") THEN "Bearer" ELSE "token"

\* commitToGitHub: the existence check.
ExistingAuthorization(token) ==
    IF startsWith(token, "ghp_") THEN "Bearer" ELSE "token"

\* commitToGitHub: the create/update PUT.
authHeader(token) ==
    IF startsWith(token, "github_pat_") THEN "Bearer" ELSE "token"

\* checkPageExists.
PageExistsAuthorization(token) ==
    IF startsWith(token, "github_pat_") THEN "Bearer" ELSE "token"

Request(name, scheme) == [request |-> name, scheme |-> scheme]

InitAuth ==
    /\ NoIngestion
    /\ call \in {[fn |-> f, pc |-> IF cached THEN "check" ELSE "meta",
                  token |-> tok, attempt |-> 0, existingSha |-> FALSE,
                  sent |-> {}] :
                    f \in {"commitToGitHub", "checkPageExists"},
                    cached \in BOOLEAN, tok \in Tokens}

\* const defaultBranch = await getDefaultBranch(env), cache miss.
AuthMeta ==
    /\ call.pc = "meta"
    /\ call' = [call EXCEPT
                  !.pc = "check",
                  !.sent = @ \cup {Request("meta", BranchAuthorization(call.token))}]
    /\ UNCHANGED <<page, kv, gh, task, stats, submitted, branchCached,
                   lastNotification, envFaults, sched>>

\* GET contents/pages/{uuid}.html: by commitToGitHub before its PUT, by
\* checkPageExists as its only request.
AuthCheck(found) ==
    /\ call.pc = "check"
    /\ call' =
          IF call.fn = "commitToGitHub"
          THEN [call EXCEPT
                  !.pc = "put",
                  !.existingSha = found,
                  !.sent = @ \cup {Request("check", ExistingAuthorization(call.token))}]
          ELSE [call EXCEPT
                  !.pc = "returned",
                  !.sent = @ \cup {Request("exists", PageExistsAuthorization(call.token))}]
    /\ UNCHANGED <<page, kv, gh, task, stats, submitted, branchCached,
                   lastNotification, envFaults, sched>>

\* PUT contents/pages/{uuid}.html; a failed PUT is retried from the check.
AuthPut(ok) ==
    /\ call.pc = "put"
    /\ call' = [call EXCEPT
                  !.pc = IF ok THEN "returned"
                         ELSE IF call.attempt = Retries THEN "thrown" ELSE "check",
                  !.attempt = IF ok \/ call.attempt = Retries THEN @ ELSE @ + 1,
                  !.existingSha = IF ok THEN @ ELSE FALSE,
                  !.sent = @ \cup {Request("put", authHeader(call.token))}]
    /\ UNCHANGED <<page, kv, gh, task, stats, submitted, branchCached,
                   lastNotification, envFaults, sched>>

NextAuth ==
    \/ AuthMeta
    \/ \E found \in BOOLEAN : AuthCheck(found)
    \/ \E ok \in BOOLEAN : AuthPut(ok)

SpecAuth == InitAuth /\ [][NextAuth]_vars

(***************************************************************************)
(* SpecUnique: processRSSFeed from the feed results to the processItem     *)
(* calls: merge, one item per link, filter, schedule.  The batch loop is   *)
(* taken at its loosest: the next item may start while any number of       *)
(* earlier ones are in flight, which covers every batchSize and            *)
(* maxConcurrency.                                                         *)
(***************************************************************************)
\* An RSS item: its link and whether the date and pattern filter keeps it.
RSSItems == [link : 1..2, relevant : BOOLEAN]

FeedResults == UNION {[1..n -> RSSItems] : n \in 0..MaxFeedLen}

\* allItems = allItems.concat(result.value), feed by feed.
RECURSIVE allItemsOf(_, _)
allItemsOf(feeds, f) ==
    IF f > Len(feeds) THEN <<>> ELSE feeds[f] \o allItemsOf(feeds, f + 1)

\* map.set(item.link, item): a link already in the Map keeps its place and
\* takes the new item, a new link is added at the end.
MapSet(entries, item) ==
    IF \E k \in 1..Len(entries) : entries[k].link = item.link
    THEN [k \in 1..Len(entries) |->
            IF entries[k].link = item.link THEN item ELSE entries[k]]
    ELSE Append(entries, item)

RECURSIVE MapValues(_, _, _)
MapValues(entries, items, k) ==
    IF k > Len(items) THEN entries
    ELSE MapValues(MapSet(entries, items[k]), items, k + 1)

\* A run that schedules every collected item is not the code's.
uniqueItemsAll(allItems) == allItems

\* Array.from(new Map(allItems.map(item => [item.link, item])).values())
uniqueItems(allItems) == MapValues(<<>>, allItems, 1)

\* uniqueItems.filter(...)
relevantItems(items) == SelectSeq(items, LAMBDA item : item.relevant)

InitUnique ==
    /\ NoIngestion
    /\ call \in {[fn |-> "processRSSFeed", pc |-> "collect", feeds |-> <<a, b>>,
                  items |-> <<>>, i |-> 0, pending |-> {}] :
                    a \in FeedResults, b \in FeedResults}

\* From the settled feed results to relevantItems.
UniqueCollect ==
    /\ call.pc = "collect"
    /\ call' = [call EXCEPT
                  !.pc = "batches",
                  !.items = relevantItems(uniqueItems(allItemsOf(call.feeds, 1)))]
    /\ UNCHANGED <<page, kv, gh, task, stats, submitted, branchCached,
                   lastNotification, envFaults, sched>>

\* const promise = processItem(item, env, config)
UniqueStart ==
    /\ call.pc = "batches"
    /\ call.i < Len(call.items)
    /\ call' = [call EXCEPT !.i = @ + 1, !.pending = @ \cup {call.i + 1}]
    /\ UNCHANGED <<page, kv, gh, task, stats, submitted, branchCached,
                   lastNotification, envFaults, sched>>

\* A processItem call returns.
UniqueSettles(p) ==
    /\ p \in call.pending
    /\ call' = [call EXCEPT !.pending = @ \ {p}]
    /\ UNCHANGED <<page, kv, gh, task, stats, submitted, branchCached,
                   lastNotification, envFaults, sched>>

\* return stats
UniqueReturn ==
    /\ call.pc = "batches"
    /\ call.i = Len(call.items)
    /\ call.pending = {}
    /\ call' = [call EXCEPT !.pc = "returned"]
    /\ UNCHANGED <<page, kv, gh, task, stats, submitted, branchCached,
                   lastNotification, envFaults, sched>>

NextUnique ==
    \/ UniqueCollect
    \/ UniqueStart
    \/ \E p \in 1..(2 * (MaxFeedLen + 1)) : UniqueSettles(p)
    \/ UniqueReturn

SpecUnique == InitUnique /\ [][NextUnique]_vars

(***************************************************************************)
(* SpecSeq: invocations that do not overlap.  A scheduled run's            *)
(* processItem or a checkSpecificUrl call starts only when no invocation   *)
(* is in flight; the page may change and the collaborators may fail        *)
(* between and inside them.  No administrative route is called.            *)
(***************************************************************************)
NoneActive == \A s \in Tasks : ~Active(s)

NextSeq ==
    \/ \E l \in Links, x \in Texts : PageChanges(l, x)
    \/ \E t \in Tasks, l \in Links : NoneActive /\ StartProcessItem(t, l)
    \/ \E t \in Tasks, l \in Links : NoneActive /\ StartCheckSpecificUrl(t, l)
    \/ \E t \in Tasks : ProcessItemLookup(t)
    \/ \E t \in Tasks, a \in {"http", "size", "plain", "script"} : FetchFullHTML(t, a)
    \/ \E t \in Tasks, a \in {"ok", "fail"} : ProcessItemPut(t, a)
    \/ \E t \in Tasks : CheckSpecificUrlLookup(t)
    \/ \E t \in Tasks : GetDefaultBranch(t)
    \/ BranchCacheExpires
    \/ \E t \in Tasks, a \in {"found", "absent", "error"} : CommitCheck(t, a)
    \/ \E t \in Tasks, a \in {"ok", "rejected", "transient"} : CommitPut(t, a)
    \/ \E t \in Tasks, a \in {"ok", "fail"} : PublishedPut(t, a)
    \/ \E t \in Tasks, a \in {"sent", "throws"} : SendEmail(t, a)
    \/ \E t \in Tasks, a \in {"ok", "fail"} : SendPushNotifications(t, a)

SpecSeq == Init /\ [][NextSeq]_vars

(***************************************************************************)
(* SpecRefuse: checkSpecificUrl from the fetched page to the decision to   *)
(* refuse it or to go on to the KV lookup.                                 *)
(***************************************************************************)
\* A fetched page is a page as isValidContent sees it, plus the characters
\* of its style blocks: isValidContent drops style blocks before it counts
\* the text, checkSpecificUrl strips the tags only.
StyleLengths == {0, 60}

SpecificPages ==
    {h \in [blank : BOOLEAN, textLength : TextLengths, keyword : BOOLEAN,
            strongError : BOOLEAN, elements : BOOLEAN, styleLength : StyleLengths] :
        /\ h.blank => (h.textLength = 0 /\ ~h.keyword /\ ~h.strongError
                          /\ ~h.elements /\ h.styleLength = 0)
        /\ h.strongError => h.textLength >= 3}

\* html.replace(/<[^>]*>/g, ' ').replace(/\s+/g, ' ').trim().length
strippedLength(html) == html.textLength + html.styleLength

\* Refusing every page the validator rejects is not the code's decision.
refusesEveryInvalid(html) == ~isValidContent(html)

\* if (!validationResult.valid) { ...; if (textLength < 50) return {success: false} }
refuses(html) ==
    IF ~isValidContent(html) THEN strippedLength(html) < 50 ELSE FALSE

InitRefuse ==
    /\ NoIngestion
    /\ call \in {[fn |-> "checkSpecificUrl", pc |-> "fetched", html |-> h] :
                    h \in SpecificPages}

ValidateSpecific ==
    /\ call.fn = "checkSpecificUrl"
    /\ call.pc = "fetched"
    /\ call' = [call EXCEPT !.pc = IF refuses(call.html) THEN "refused" ELSE "lookup"]
    /\ UNCHANGED <<page, kv, gh, task, stats, submitted, branchCached,
                   lastNotification, envFaults, sched>>

NextRefuse == ValidateSpecific

SpecRefuse == InitRefuse /\ [][NextRefuse]_vars

(***************************************************************************)
(* SpecRate: checkRateLimit for one client identifier, called by requests  *)
(* that may be handled concurrently.  Each request awaits kv.get, decides  *)
(* on what it read, and awaits kv.put.  The clock is counted in windows:   *)
(* a tick moves it past the resetAt of a record written before the tick.   *)
(* The model follows MaxRequests requests per window, from a window that   *)
(* has seen none or is within two requests of the limit.                   *)
(***************************************************************************)
RATE_LIMIT_MAX == 100
RATE_LIMIT_WINDOW == 3600

NoData == [count |-> 0, resetAt |-> 0]

RateRecord(count, resetAt) == [count |-> count, resetAt |-> resetAt]

IdleRequest == [pc |-> "idle", put |-> NoData]

\* What a request decides from the record it read at time now, and the
\* record it then puts (NoData: it puts nothing).
rateLimit(data, now) ==
    IF data = NoData \/ now >= data.resetAt
    THEN [allowed |-> TRUE, put |-> RateRecord(1, now + RATE_LIMIT_WINDOW)]
    ELSE IF data.count >= RATE_LIMIT_MAX
         THEN [allowed |-> FALSE, put |-> NoData]
         ELSE [allowed |-> TRUE, put |-> RateRecord(data.count + 1, data.resetAt)]

\* The window has seen count requests, handled one after another, or none.
InitRate ==
    /\ NoIngestion
    /\ call \in {[fn |-> "checkRateLimit", now |-> 0,
                  data |-> IF c = 0 THEN NoData ELSE RateRecord(c, RATE_LIMIT_WINDOW),
                  allowed |-> c, issued |-> 0,
                  request |-> [k \in Callers |-> IdleRequest]] :
                    c \in {0} \cup ((RATE_LIMIT_MAX - 2)..RATE_LIMIT_MAX)}

\* const data = await kv.get(key) returns; the request decides and, unless
\* it is denied, starts its put.
RateGet(k) ==
    LET r == rateLimit(call.data, call.now)
    IN  /\ call.fn = "checkRateLimit"
        /\ call.request[k].pc = "idle"
        /\ call.issued < MaxRequests
        /\ call' = [call EXCEPT
                      !.allowed = IF r.allowed THEN @ + 1 ELSE @,
                      !.issued = @ + 1,
                      !.request[k] = IF r.allowed
                                     THEN [pc |-> "put", put |-> r.put]
                                     ELSE IdleRequest]
        /\ UNCHANGED <<page, kv, gh, task, stats, submitted, branchCached,
                       lastNotification, envFaults, sched>>

\* await kv.put(key, ...) is applied; the request returns allowed.
RatePut(k) ==
    /\ call.fn = "checkRateLimit"
    /\ call.request[k].pc = "put"
    /\ call' = [call EXCEPT !.data = call.request[k].put,
                            !.request[k] = IdleRequest]
    /\ UNCHANGED <<page, kv, gh, task, stats, submitted, branchCached,
                   lastNotification, envFaults, sched>>

\* The window of the stored record ends; requests decided from now on
\* belong to the next window.
RateTick ==
    /\ call.fn = "checkRateLimit"
    /\ call.now < MaxTime * RATE_LIMIT_WINDOW
    /\ call' = [call EXCEPT !.now = @ + RATE_LIMIT_WINDOW, !.allowed = 0,
                            !.issued = 0]
    /\ UNCHANGED <<page, kv, gh, task, stats, submitted, branchCached,
                   lastNotification, envFaults, sched>>

NextRate ==
    \/ \E k \in Callers : RateGet(k)
    \/ \E k \in Callers : RatePut(k)
    \/ RateTick

SpecRate == InitRate /\ [][NextRate]_vars

(***************************************************************************)
(* Properties.                                                             *)
(***************************************************************************)
\* No invocation is in flight.
Quiescent == \A t \in Tasks : ~Active(t)

\* The published files whose page embeds the link.
FilesOf(l) == {u \in DOMAIN gh : gh[u].url = l}

\* Invocation t is the only one working on its link.
AloneOnLink(t) ==
    \A s \in Tasks : (s # t /\ Active(s)) => task[s].link # task[t].link

\* Invocation t is at its KV lookup and a record exists for its link.
FindsRecord(t) == task[t].pc = "lookup" /\ IdOf(task[t].link) \in DOMAIN kv

\* The body a fetch of t's link gives now: the one t has fetched, if it has.
FreshBody(t) ==
    IF task[t].html # NoHtml
    THEN task[t].html
    ELSE sanitizeHTML([text |-> page[task[t].link], script |-> FALSE])

\* C1: at every moment of the batch loop, the number of processItem
\* operations that have been started and have not completed is at most
\* maxConcurrency.
C1_InFlightAtMostK == InFlight <= sched.maxConcurrency

\* C2: when no collaborator fails and the invocations that ingested a link
\* have all returned, the content store holds at most one published file for
\* the link, and if it holds one the KV record of the link's id names it.
C2_OneFilePerLink ==
    (~envFaults /\ Quiescent) =>
        \A l \in Links :
            /\ Cardinality(FilesOf(l)) <= 1
            /\ FilesOf(l) # {} =>
                  (IdOf(l) \in DOMAIN kv /\ kv[IdOf(l)].uuid \in FilesOf(l))

\* C3: once the record of an id holds a uuid, every later write to the record
\* stores the same uuid.
C3_UuidImmutable ==
    [][\A id \in DOMAIN kv : id \in DOMAIN kv' /\ kv'[id].uuid = kv[id].uuid]_vars

\* C4: a processItem call that finds a record stored for its link returns
\* 'Already exists' at once: it fetches nothing (it is done in that step),
\* KV and the content store are unchanged, and saved is not incremented.
C4_DuplicateIsSkipped ==
    [][\A t \in Tasks :
          (task[t].kind = "processItem" /\ FindsRecord(t) /\ task'[t] # task[t]) =>
              /\ task'[t].pc = "done"
              /\ task'[t].result = "Already exists"
              /\ kv' = kv
              /\ gh' = gh
              /\ stats'.saved = stats.saved]_vars

\* A processItem call of the observed run has returned 'Already exists' for a
\* link that has a record.
C4_Witness ==
    /\ DOMAIN kv # {}
    /\ stats.processed > 0
    /\ \E t \in Tasks : task[t].pc = "done" /\ task[t].result = "Already exists"

\* C5: when processItem skips an item because a record already exists, the
\* errors counter of the run is not incremented.
C5_SkipIsNotAnError ==
    [][\A t \in Tasks :
          (task[t].pc = "lookup" /\ task'[t].result = "Already exists") =>
              stats'.errors = stats.errors]_vars

\* C6: a processItem call that finds the record of its link stored without a
\* revision, while no other invocation is working on the link, re-attempts
\* the publish: it does not return at the lookup.
C6_UnpublishedIsRetried ==
    [][\A t \in Tasks :
          (/\ task[t].kind = "processItem"
           /\ FindsRecord(t)
           /\ kv[IdOf(task[t].link)].githubSha = NoSha
           /\ AloneOnLink(t)
           /\ task'[t] # task[t]) =>
              task'[t].pc # "done"]_vars

\* C7: an invocation, processItem or checkSpecificUrl, that finds a record for
\* its link whose stored body differs from the freshly fetched body goes on
\* to republish, under the uuid of the record.
C7_StaleIsRepublished ==
    [][\A t \in Tasks :
          (/\ FindsRecord(t)
           /\ kv[IdOf(task[t].link)].html # FreshBody(t)
           /\ task'[t] # task[t]) =>
              /\ task'[t].pc # "done"
              /\ task'[t].uuid = kv[IdOf(task[t].link)].uuid]_vars

\* C8: after an attempt that received a body over the size ceiling,
\* fetchFullHTML waits for no backoff and makes no further attempt.
C8_OversizeNotRetried ==
    \A t \in Tasks : task[t].sawSize => task[t].pc # "fetch"

\* C9: a processItem whose content fetch received a body over the size ceiling
\* issues no KV put and no content-store request (KV and the content store
\* are unchanged by its steps), and it ends in failure, counted once in
\* errors.
C9_OversizeWritesNothing ==
    [][\A t \in Tasks :
          (task[t].kind = "processItem" /\ task[t].sawSize /\ task'[t] # task[t]) =>
              /\ kv' = kv
              /\ gh' = gh
              /\ task'[t].pc = "done" =>
                    /\ task'[t].result = "error"
                    /\ task[t].inRun => stats'.errors = stats.errors + 1]_vars

\* C10: the PUT of commitToGitHub carries a sha if and only if a file exists
\* at pages/{uuid}.html at the time of the existence check, whatever the
\* existence check answers.
C10_ShaIffFileExists ==
    [][\A t \in Tasks :
          (task[t].pc = "check" /\ task'[t].pc = "put") =>
              ((task'[t].existingSha # NoSha) <=> (task[t].uuid \in DOMAIN gh))]_vars

\* C11: once the publish and the KV update that follows it have succeeded,
\* processItem ends with success, counted once in saved and not in errors,
\* whatever sendEmail and sendPushNotifications do; its notification steps
\* leave the stored record and the content store as they are.
C11_NotificationsAreNonCritical ==
    [][\A t \in Tasks :
          (/\ task[t].kind = "processItem"
           /\ task[t].pc \in {"email", "push"}
           /\ task'[t] # task[t]) =>
              /\ kv' = kv
              /\ gh' = gh
              /\ task'[t].pc \in {"push", "done"}
              /\ task'[t].pc = "done" =>
                    /\ task'[t].result = "success"
                    /\ task[t].inRun =>
                          /\ stats'.saved = stats.saved + 1
                          /\ stats'.errors = stats.errors]_vars

\* An item of the run was saved although the push-marker write failed: the
\* marker is still absent.
C11_Witness ==
    /\ envFaults
    /\ stats.saved = 1
    /\ lastNotification = NoId
    /\ \E t \in Tasks : task[t].pc = "done" /\ task[t].result = "success"

\* The run has reached its batch phase (or has returned from it).
InBatchPhase == sched.pc \in {"loop", "race", "all", "done"}

C14_RunNeverRejects == sched.pc # "rejected"

\* C15: in the batch phase processed counts the items whose loop body has
\* started, once each, and every completed item is counted exactly once, in
\* saved if it succeeded and in errors if it failed; no update is lost.
C15_CountersAreExact ==
    InBatchPhase =>
        /\ stats.processed = sched.j + (IF sched.pc = "race" THEN 1 ELSE 0)
        /\ stats.saved - sched.pre.saved = Cardinality(sched.savedItems)
        /\ stats.errors - sched.pre.errors = Cardinality(sched.failedItems)
        /\ sched.savedItems \cap sched.failedItems = {}
        /\ sched.savedItems \cup sched.failedItems = (1..sched.j) \ sched.pending

\* A run has returned with both saved and failed items, some of which ran
\* concurrently (more than one item in a batch).
C15_Witness ==
    /\ sched.pc = "done"
    /\ sched.savedItems # {}
    /\ sched.failedItems # {}
    /\ sched.batchSize > 1
    /\ sched.n > 2

\* C16: for every value of the BATCH_SIZE and MAX_CONCURRENCY settings,
\* loadConfig returns batchSize and maxConcurrency as integers in [1,10].
C16_ConfigInRange ==
    (call.fn = "loadConfig" /\ call.pc = "returned") =>
        /\ ~call.config.batchSize.nan
        /\ call.config.batchSize.val \in 1..10
        /\ ~call.config.maxConcurrency.nan
        /\ call.config.maxConcurrency.val \in 1..10

\* C17: every body held by a KV record or by a published file is the output
\* of sanitizeHTML: no record and no file holds a fetched page with its
\* script blocks.
C17_BodiesAreSanitized ==
    /\ \A id \in DOMAIN kv : ~kv[id].html.script
    /\ \A u \in DOMAIN gh : ~gh[u].html.script

\* A record and its published file hold a fetched body.
C17_Witness ==
    \E id \in DOMAIN kv :
        /\ kv[id].html # NoHtml
        /\ kv[id].uuid \in DOMAIN gh
        /\ gh[kv[id].uuid].html = kv[id].html
        /\ kv[id].html = sanitizeHTML([text |-> page[kv[id].url], script |-> TRUE])

\* C18: the id is a function of the link alone, the same on both paths:
\* every record, whichever path wrote it, is stored under the id that both
\* processItem and checkSpecificUrl derive from its link, so a link has at
\* most one record and both paths address it.
C18_SameIdOnBothPaths ==
    /\ \A id \in DOMAIN kv :
          id = IdOf(kv[id].url) /\ id = CheckSpecificUrlId(kv[id].url)
    /\ \A t \in Tasks :
          Active(t) => TaskId(task[t]) = IdOf(task[t].link)

\* A checkSpecificUrl has found, under its own id for the link, the record a
\* processItem that is still running wrote for that link: it adopted its uuid.
C18_Witness ==
    \E t, s \in Tasks :
        /\ task[t].kind = "processItem" /\ task[t].pc \notin {"lookup", "fetch", "put1"}
        /\ task[s].kind = "checkSpecificUrl" /\ Active(s)
        /\ task[s].link = task[t].link
        /\ task[t].uuid # 0
        /\ task[s].uuid = task[t].uuid
        /\ ~task[s].isNew
        /\ CheckSpecificUrlId(task[s].link) \in DOMAIN kv

\* The record of t's link holds the commit result: a revision and the URL of
\* the file published under the record's uuid for that link.
RecordIsPublished(store, files, link) ==
    /\ IdOf(link) \in DOMAIN store
    /\ store[IdOf(link)].githubSha # NoSha
    /\ store[IdOf(link)].publicUrl # 0
    /\ store[IdOf(link)].uuid \in DOMAIN files
    /\ files[store[IdOf(link)].uuid].url = link

\* C19: an item of the run whose link has no KV record is ingested end to
\* end when its collaborators succeed: it is not skipped at the lookup; a
\* fetched body goes to the first KV write, then to the commit; a create
\* after a not-found existence check is accepted when the store does not
\* fail; the KV write after the commit leaves the record holding the
\* revision and the URLs of the published file; and from there the item
\* ends as a success counted once in saved.  Without transient failures no
\* step other than the content fetch and a refused commit ends in an error.
C19_EndToEndSuccess ==
    [][\A t \in Tasks :
          (task[t].kind = "processItem" /\ task[t].inRun /\ task'[t] # task[t]) =>
              LET now == task[t]
                  next == task'[t]
              IN  /\ (now.pc = "lookup" /\ IdOf(now.link) \notin DOMAIN kv) =>
                        next.pc = "fetch"
                  /\ (now.pc = "fetch" /\ next.pc \notin {"fetch", "done"}) =>
                        (next.pc = "put1" /\ next.html # NoHtml)
                  /\ (now.pc = "put1" /\ next.pc # "done") =>
                        (next.pc \in {"meta", "check"} /\ IdOf(now.link) \in DOMAIN kv')
                  /\ (now.pc = "put" /\ ~envFaults /\ now.existingSha = NoSha
                        /\ now.uuid \notin DOMAIN gh) =>
                        (next.pc = "put2" /\ now.uuid \in DOMAIN gh')
                  /\ (now.pc = "put2" /\ next.pc # "done") =>
                        (next.pc = "email" /\ RecordIsPublished(kv', gh', now.link))
                  /\ (now.pc \in {"email", "push"} /\ next.pc = "done") =>
                        /\ next.result = "success"
                        /\ stats'.saved = stats.saved + 1
                        /\ stats'.errors = stats.errors
                  /\ (~envFaults /\ now.pc \notin {"lookup", "fetch", "put"}) =>
                        next.result # "error"]_vars

\* Without any transient failure an item of the run has been saved and the
\* record of its link holds the revision and the URLs of its published file.
C19_Witness ==
    /\ ~envFaults
    /\ stats.saved = 1
    /\ stats.errors = 0
    /\ \E t \in Tasks : task[t].pc = "done" /\ task[t].result = "success"
    /\ \E l \in Links : RecordIsPublished(kv, gh, l)

\* C20: the edit distance of a string to itself is 0, the edit distance is
\* the same in both directions, and the similarity of a string to itself is
\* 1.0, the empty string included.
C20_DistanceAndSimilarityLaws ==
    /\ (call.fn = "levenshteinDistance" /\ call.pc = "returned") =>
          /\ call.distance = levenshteinDistance(call.str2, call.str1)
          /\ (call.str1 = call.str2) => call.distance = 0
    /\ (call.fn = "calculateSimilarity" /\ call.pc = "returned"
          /\ call.str1 = call.str2) =>
          IsOne(call.similarity)

\* The distance of a string of full length to a shorter one that shares no
\* character with it has been computed: every character is edited.
C20_Witness ==
    /\ call.fn = "levenshteinDistance" /\ call.pc = "returned"
    /\ Len(call.str1) = MaxStrLen /\ Len(call.str2) = MaxStrLen - 1
    /\ call.distance = MaxStrLen

\* C21: isValidContent accepts every non-blank page whose HTML contains a
\* content keyword, whatever the length of its text and whatever error
\* heading it carries.
C21_KeywordPageIsAccepted ==
    (call.fn = "isValidContent" /\ call.pc = "returned"
        /\ ~call.html.blank /\ call.html.keyword) =>
        call.valid

\* C22: a feed item with a valid link and a wanted title whose publication
\* date is missing or unparseable passes the filter, and the timestamp it is
\* stored with is the ingestion time.
C22_UndatedItemIsIngested ==
    (/\ call.fn = "filter"
     /\ call.item.validUrl
     /\ call.config.processAll \/ call.item.matches
     /\ ~call.item.pubDate.set \/ call.item.pubDate.date.nan) =>
        /\ call.pc = "filtered" => call.relevant
        /\ call.pc = "stamped" => call.timestamp.kind = "now"

\* C23: no processItem of a later batch is started before every processItem
\* of the batches before it has completed and its result has been counted:
\* the items started so far end with the current batch, and every item of
\* an earlier batch has settled and is counted in saved or in errors.
C23_BatchBarrier ==
    InBatchPhase =>
        /\ sched.j <= BatchEnd(sched)
        /\ \A p \in 1..sched.j :
              p <= sched.i =>
                  /\ p \notin sched.pending
                  /\ p \in sched.savedItems \cup sched.failedItems
        /\ (stats.saved + stats.errors) - (sched.pre.saved + sched.pre.errors) >=
              Cardinality({p \in 1..sched.j : p <= sched.i})

\* An item of the second batch is in flight after a first batch of two items.
C23_Witness ==
    /\ sched.pc \in {"loop", "race", "all"}
    /\ sched.batchSize = 2
    /\ sched.i = 2
    /\ sched.j = 3
    /\ sched.pending = {3}

\* C24: a call of the feed fetch, the content fetch, the publish or the email
\* send makes at most three attempts; the wait after failed attempt n that is
\* not the last is 1000 * 2^n ms; after the third failure the error of that
\* attempt is thrown and no further attempt is made.
C24_ThreeAttemptsWithBackoff ==
    (call.fn \in {"parseRSSFeed", "fetchFullHTML", "commitToGitHub", "sendEmail"}) =>
        LET made == Len(call.failures) + (IF call.pc \in {"attempt", "returned"} THEN 1 ELSE 0)
        IN  /\ made <= 3
            /\ Len(call.delays) <= 2
            /\ \A n \in 1..Len(call.delays) :
                  call.delays[n] = (IF n = 1 THEN 1000 ELSE 2000)
            /\ call.pc = "attempt" => Len(call.delays) = Len(call.failures)
            /\ call.pc = "backoff" => Len(call.delays) = Len(call.failures) - 1
            /\ call.pc = "thrown" <=> Len(call.failures) = 3
            /\ call.pc = "thrown" =>
                  (call.delays = <<1000, 2000>> /\ call.error = call.failures[3])

\* The feed fetch has failed three times, the last time on an empty body, and
\* has thrown.
C24_Witness ==
    /\ call.fn = "parseRSSFeed"
    /\ call.pc = "thrown"
    /\ call.failures = <<"network", "status", "empty">>
    /\ call.delays = <<1000, 2000>>

\* C25: when the content store refuses the PUT with a non-transient 4xx (the
\* revision sent does not match the file), commitToGitHub surfaces the error
\* without sending another PUT: the invocation ends at that step.
C25_RefusedPutIsNotRetried ==
    [][\A t \in Tasks :
          (/\ task[t].pc = "put"
           /\ ~envFaults
           /\ ~PutAccepted(task[t].uuid, task[t].existingSha)
           /\ task'[t] # task[t]) =>
              task'[t].pc = "done"]_vars

\* C26: within one run the default-branch metadata request is issued at most
\* once, also when several items reach the publish concurrently with the
\* cache empty or expired; and a call made while a value is cached issues no
\* request.
C26_OneMetadataRequest ==
    [][(call.fn = "getDefaultBranch") =>
          /\ call'.requests <= 1
          /\ call.cache # "none" => call'.requests = call.requests]_vars

\* The run has returned its stats: every item submitted has settled in
\* exactly one way, a failed item is counted once in errors and not in saved.
RunSettled ==
    /\ sched.pc = "done"
    /\ sched.pending = {}
    /\ sched.savedItems \cup sched.failedItems = 1..sched.n
    /\ sched.savedItems \cap sched.failedItems = {}
    /\ stats.errors - sched.pre.errors = Cardinality(sched.failedItems)
    /\ stats.saved - sched.pre.saved = Cardinality(sched.savedItems)

\* C27: provided every outbound call eventually returns, the run terminates,
\* and when it returns every submitted item has reached exactly one terminal
\* state, a failed item being counted in errors exactly once and never in
\* saved.
C27_EveryItemTerminates == <>(sched.pc = "rejected" \/ RunSettled)

\* A run of three items has returned with saved and failed items.
C27_Witness ==
    /\ RunSettled
    /\ sched.n = 3
    /\ sched.savedItems # {}
    /\ sched.failedItems # {}

\* C28: the push marker always describes the most recently completed marker
\* write; a poll that reports a notification reports that one only, and a
\* client whose X-Last-Check is not earlier than the marker's timestamp is
\* told hasNew = false.
C28_MarkerIsLastCompletedWrite ==
    [][(call.fn = "push") =>
          /\ call'.marker = (IF call'.completed = <<>> THEN NoMarker
                             ELSE call'.completed[Len(call'.completed)])
          /\ (call'.polls # call.polls) =>
                LET lastCheckTime == lastCheckTimeOf(call'.header)
                IN  /\ call'.response.hasNew =>
                          /\ call.completed # <<>>
                          /\ call'.response.notification =
                                call.completed[Len(call.completed)]
                    /\ (~lastCheckTime.nan /\ lastCheckTime.val >= call.marker.timestamp) =>
                          ~call'.response.hasNew]_vars

\* Items 1 then 2 were published with no poll in between, the second with the
\* later timestamp; the poll that follows reports item 2.
C28_Witness ==
    /\ call.fn = "push"
    /\ Len(call.completed) = 2
    /\ call.completed[1].id = 1
    /\ call.completed[2].id = 2
    /\ call.completed[1].timestamp < call.completed[2].timestamp
    /\ call.polls = 1
    /\ call.response.hasNew
    /\ call.response.notification.id = 2

\* A step of invocation t writes no record other than the one under its id
\* and no file other than pages/{its uuid}.html.
WritesOwnKeysOnly(t) ==
    /\ \A id \in DOMAIN kv' :
          (id \notin DOMAIN kv \/ kv'[id] # kv[id]) => id = TaskId(task[t])
    /\ \A u \in DOMAIN gh' :
          (u \notin DOMAIN gh \/ gh'[u] # gh[u]) => u = task[t].uuid
    /\ \A s \in Tasks :
          (s # t /\ task[s].kind = "processItem") =>
              /\ TaskId(task[s]) # TaskId(task[t])
              /\ task[s].uuid # task[t].uuid \/ task[t].uuid = 0

\* C29: two processItem operations running concurrently on items with
\* different ids write disjoint sets of KV keys and disjoint content-store
\* paths: a step of one writes only the record under its own id and the file
\* of its own uuid, and overwrites no KV value the other has written, the
\* push marker included.
C29_DisjointWrites ==
    [][\A t \in Tasks :
          (task[t].kind = "processItem" /\ task'[t] # task[t]) =>
              /\ WritesOwnKeysOnly(t)
              /\ lastNotification' # lastNotification => lastNotification = NoId]_vars

\* C29, amended: the record keys and the content-store paths the two
\* operations write are disjoint; the push marker is the one KV key both
\* write.
C29_DisjointRecordsAndPaths ==
    [][\A t \in Tasks :
          (task[t].kind = "processItem" /\ task'[t] # task[t]) =>
              WritesOwnKeysOnly(t)]_vars

\* Both items have been saved: two records, two files.
C29_Witness ==
    /\ stats.saved = 2
    /\ Cardinality(DOMAIN kv) = 2
    /\ Cardinality(DOMAIN gh) = 2
    /\ \A id \in DOMAIN kv : kv[id].githubSha # NoSha
    /\ lastNotification # NoId

\* C30: a capped call returns a value at most the cap exactly when the
\* uncapped edit distance of the two strings is at most the cap, and then it
\* returns that distance.
C30_CapKeepsTheDecision ==
    (call.fn = "optimizedLevenshtein" /\ call.pc = "returned") =>
        LET distance == levenshteinDistance(call.str1, call.str2)
        IN  /\ (call.distance <= call.maxDistance) <=> (distance <= call.maxDistance)
            /\ (distance <= call.maxDistance) => call.distance = distance

\* A checkSpecificUrl call is at its KV lookup, the record of its URL has a
\* public URL and the body it has just fetched and sanitized is the stored one.
FindsUnchanged(t) ==
    LET id == CheckSpecificUrlId(task[t].link)
    IN  /\ task[t].kind = "checkSpecificUrl"
        /\ task[t].pc = "lookup"
        /\ id \in DOMAIN kv
        /\ kv[id].publicUrl # 0
        /\ kv[id].html = task[t].html

\* C31: a checkSpecificUrl call that finds a record with a public URL whose
\* body equals the freshly fetched sanitized body returns success at once:
\* it sends no content-store request and no email (it is done in that step,
\* with isNew = false) and leaves KV and the content store as they are.
C31_UnchangedIsNoOp ==
    [][\A t \in Tasks :
          (FindsUnchanged(t) /\ task'[t] # task[t]) =>
              /\ task'[t].pc = "done"
              /\ task'[t].result = "success"
              /\ task'[t].isNew = FALSE
              /\ kv' = kv
              /\ gh' = gh
              /\ lastNotification' = lastNotification]_vars

\* A second checkSpecificUrl call has fetched the page its first call
\* published and is at its lookup, no other invocation in flight.
C31_Witness ==
    \E t \in Tasks :
        /\ FindsUnchanged(t)
        /\ AloneOnLink(t)
        /\ kv[CheckSpecificUrlId(task[t].link)].uuid \in DOMAIN gh
        /\ gh[kv[CheckSpecificUrlId(task[t].link)].uuid].html = task[t].html

\* C32: all requests a call sends to the content store with one credential
\* carry the same Authorization scheme, the one the token prefix maps to:
\* Bearer for a fine-grained token (github_pat_), token for a classic one
\* (ghp_).
C32_OneSchemePerCredential ==
    call.fn \in {"commitToGitHub", "checkPageExists"} =>
        /\ \A r1, r2 \in call.sent : r1.scheme = r2.scheme
        /\ \A r \in call.sent :
              /\ call.token.prefix = "github_pat_" => r.scheme = "Bearer"
              /\ call.token.prefix = "ghp_" => r.scheme = "token"

\* C33: within one run no two processItem calls receive the same link, so
\* no two item operations in flight share an id.
C33_OneCallPerLink ==
    call.fn = "processRSSFeed" =>
        /\ \A p, q \in 1..call.i :
              p # q => call.items[p].link # call.items[q].link
        /\ \A p, q \in call.pending :
              p # q => IdOf(call.items[p].link) # IdOf(call.items[q].link)

\* Two feeds returned items with the same link and another link; the run has
\* two processItem calls in flight.
C33_Witness ==
    /\ call.fn = "processRSSFeed"
    /\ \E p \in 1..Len(call.feeds[1]), q \in 1..Len(call.feeds[2]) :
          call.feeds[1][p].link = call.feeds[2][q].link
    /\ Len(allItemsOf(call.feeds, 1)) > 2
    /\ Cardinality(call.pending) = 2

\* C34: across non-overlapping invocations for a link, whatever transient
\* failures occur, the content store never holds more than one published
\* file for the link.
C34_OneFileAcrossRetries ==
    \A l \in Links : Cardinality(FilesOf(l)) <= 1

\* C35: a KV record that carries a revision names, through its uuid, a file
\* that exists in the content store at pages/{uuid}.html.
C35_RevisionNamesAFile ==
    \A id \in DOMAIN kv :
        kv[id].githubSha # NoSha => kv[id].uuid \in DOMAIN gh

\* A record carries a revision while another invocation for the same link,
\* holding another uuid, is still in flight.
C35_Witness ==
    \E id \in DOMAIN kv, t \in Tasks :
        /\ kv[id].githubSha # NoSha
        /\ Active(t)
        /\ TaskId(task[t]) = id
        /\ task[t].uuid # 0
        /\ task[t].uuid # kv[id].uuid

\* C36: when a run returns its stats, saved + errors = processed + the
\* number of specific URLs checked + the number of feeds whose fetch failed.
C36_RunAccounting ==
    sched.pc = "done" =>
        stats.saved + stats.errors =
            stats.processed + NumSpecificUrls + Cardinality(sched.failedFeeds)

\* A run has returned after every feed but one failed and items of the
\* other were saved and failed.
C36_Witness ==
    /\ sched.pc = "done"
    /\ Cardinality(sched.failedFeeds) = NumFeeds - 1
    /\ sched.savedItems # {}
    /\ sched.failedItems # {}
    /\ stats.processed = sched.n

\* C37: checkSpecificUrl refuses a fetched page only when isValidContent
\* rejects it and its tag-stripped text is shorter than 50 characters; every
\* page with at least 50 characters of tag-stripped text goes on to the
\* lookup and the publish, error pages included.
C37_RefusesShortInvalidOnly ==
    (call.fn = "checkSpecificUrl" /\ call.pc \in {"refused", "lookup"}) =>
        LET textLength == call.html.textLength + call.html.styleLength
            errorPage == call.html.strongError /\ call.html.textLength < 200
        IN  /\ call.pc = "refused" =>
                  (~isValidContent(call.html) /\ textLength < 50)
            /\ textLength >= 50 => call.pc = "lookup"
            /\ (errorPage /\ textLength >= 50) => call.pc = "lookup"

\* A page the validator rejected as an error page, with at least 50
\* characters of text, has gone on to the lookup.
C37_Witness ==
    /\ call.fn = "checkSpecificUrl"
    /\ call.pc = "lookup"
    /\ call.html.strongError
    /\ call.html.textLength \in 50..199
    /\ ~isValidContent(call.html)

\* An invocation for the link is at its sendEmail call.
Emailing(l) == \E t \in Tasks : task[t].pc = "email" /\ task[t].link = l

\* C38: across invocations that do not overlap, an email for a given id is
\* attempted by at most one of them: once an invocation has called sendEmail
\* for the link and gone on, no later invocation calls it for that link.
C38_OneEmailPerId ==
    \A l \in Links : [](Emailing(l) => [](~Emailing(l) => []~Emailing(l)))

\* A processItem call has notified (the push marker names the link) and a
\* later call for the same link has returned without notifying.
C38_Witness ==
    \E l \in Links, t \in Tasks :
        /\ lastNotification = IdOf(l)
        /\ IdOf(l) \in DOMAIN kv
        /\ kv[IdOf(l)].publicUrl # 0
        /\ task[t].pc = "done"
        /\ task[t].result = "Already exists"

\* C39: checkRateLimit allows at most RATE_LIMIT_MAX requests of one client
\* identifier within one window, also when its requests are handled
\* concurrently.
C39_AtMostMaxPerWindow ==
    call.fn = "checkRateLimit" => call.allowed <= RATE_LIMIT_MAX

====
